---- MODULE Spec2Model ----
(***************************************************************************)
(* Failure-analysis subsystem of the Playwright automation framework:      *)
(* ErrorHandler (classification, in-memory buffer, append log, bounded     *)
(* "latest" file), the wrappers that call it (BasePage.retryOperation,     *)
(* TestAssertions.expectWithCapture, TestIsolation, TestHooks, the         *)
(* homePage fixture) and FailureSummary.analyzeErrors.                     *)
(*                                                                         *)
(* Specifications:                                                         *)
(*   SpecClassify  categorizeError applied to every message                *)
(*   Spec          one ErrorHandler instance used by cooperative tasks     *)
(*   SpecTest      one test run through the homePage fixture               *)
(*   SpecAnalyze   analyzeErrors applied to lists of reporter entries      *)
(***************************************************************************)
EXTENDS Integers, Sequences, FiniteSets, TLC

VARIABLES
    classifyIn,     \* SpecClassify: the Error handed to categorizeError
    classifyOut,    \* SpecClassify: the ErrorType returned ("none" before the call)
    errors,         \* ErrorHandler.errors, the in-memory buffer
    logFile,        \* the lines of error-handler-<date>.log
    latestFile,     \* the entries of latest-handler-errors.json
    priorLen,       \* how many entries earlier sessions had left in the files
    calls,          \* the handleError invocations, in the order they were issued
    microtasks,     \* calls whose continuation after `await captureContext` is queued
    test,           \* SpecTest: the test being run through the homePage fixture
    activeTests,    \* TestIsolation.activeTests
    reports,        \* the reports afterTest printed, each with the buffer it read
    analyzeIn,      \* SpecAnalyze: the ErrorLogEntry list handed to analyzeErrors
    analyzeOut,     \* SpecAnalyze: the insights returned (done is FALSE before the call)
    historyIn,      \* SpecHistory: the run summaries handed to analyzeHistoricalData
    historyOut,     \* SpecHistory: the HistoricalAnalysis returned
    reporter,       \* SpecReporter: the ErrorOnlyReporter of the current run
    dumps,          \* the errors-<timestamp>.json files, oldest first
    latestErrors,   \* the summary in latest-errors.json
    reportObjects,  \* SpecErrorReporter: the ErrorReport objects created, by reference
    reportIndex,    \* the keys of ErrorReporter.reports (a report's id is its reference)
    sessionErrors,  \* ErrorReporter.sessionErrors: references, in push order
    reportFiles,    \* the <id>.json files of the report directory
    lastCall,       \* the last ErrorReporter method called, with its arguments
    captureIn,      \* SpecCapture: the arguments of captureFullContext and what fails
    captureOut,     \* SpecCapture: what captureFullContext returned or threw
    errorObjects,   \* SpecSnapshot: the TestError objects created, by reference
    sessionId,      \* ErrorHandler.sessionId, set once by the constructor
    errorRefs,      \* SpecSnapshot: this.errors as references into objects
    snapshotRefs,   \* SpecSnapshot: the array a caller got from getErrors
    snapshotOp,     \* SpecSnapshot: the last operation, and who ran it
    retryOp,        \* SpecRetry: one BasePage.retryOperation call
    callIn,         \* the arguments of the function or method a specification applies
    callOut,        \* what that call returned or raised
    isListening,    \* SpecListen: ContextCapture.isListening
    consoleMessages,\* ContextCapture.consoleMessages
    consoleHandlers,\* how many 'console' listeners the capture has put on the page
    emitted,        \* the console messages the page has emitted, oldest first
    clock,          \* SpecNetwork: Date.now(), in milliseconds
    pageRequests,   \* the requests the page has issued, with how far each has got
    activeRequests, \* NetworkHandler.activeRequests: request id -> context
    metrics         \* NetworkHandler.metrics

classifyVars == <<classifyIn, classifyOut>>
storeVars == <<errors, logFile, latestFile, priorLen, calls, microtasks>>
testVars == <<test, activeTests, reports>>
analyzeVars == <<analyzeIn, analyzeOut>>
historyVars == <<historyIn, historyOut>>
\* the state of the analysis tools, which the test process never touches
reporterVars == <<reporter, dumps, latestErrors>>
errorReporterVars == <<reportObjects, reportIndex, sessionErrors, reportFiles, lastCall>>
captureVars == <<captureIn, captureOut>>
snapshotVars == <<errorObjects, sessionId, errorRefs, snapshotRefs, snapshotOp>>
retryVars == <<retryOp>>
callVars == <<callIn, callOut>>
listenVars == <<isListening, consoleMessages, consoleHandlers, emitted>>
networkVars == <<clock, pageRequests, activeRequests, metrics>>
toolVars == <<analyzeVars, historyVars, reporterVars, errorReporterVars, captureVars, snapshotVars, retryVars, callVars, listenVars, networkVars>>
vars == <<classifyVars, storeVars, testVars, toolVars>>

(***************************************************************************)
(* Error messages.  A message is abstracted to the set of recognised       *)
(* substrings that occur in it, and whether they occur with capital        *)
(* letters ("Timeout" rather than "timeout"); String.includes is case      *)
(* sensitive, so a keyword is found only in a lower-cased message.         *)
(***************************************************************************)
ClassifierKeywords ==
    { "strict mode violation", "resolved to", "elements",
      "locator", "selector", "not found",
      "timeout", "navigation", "network",
      "login", "authentication", "credential",
      "not clickable", "not visible", "detached",
      "expect", "assertion" }

\* substrings searched by FailureSummary only
AnalyzerKeywords == { "auth", "permission", "received", "request" }

Keywords == ClassifierKeywords \cup AnalyzerKeywords

\* IsSubstring(needle, word): needle occurs inside the recognised word
IsSubstring(needle, word) ==
    \/ needle = word
    \/ needle = "auth" /\ word = "authentication"

Message(words, upper) == [words |-> words, upper |-> upper]

toLowerCase(m) == [m EXCEPT !.upper = FALSE]

includes(m, needle) ==
    /\ ~m.upper
    /\ \E w \in m.words : IsSubstring(needle, w)

\* A thrown value.  hasMessage is FALSE for a value without a string `message`
\* (throw 'text', throw undefined): the `error as Error` casts do not check it.
\* failure is the number of the failure the value stems from (0: none) and
\* wraps the number of times retryOperation re-wrapped it in a new Error.
ErrorOf(m, f) == [message |-> m, hasMessage |-> TRUE, failure |-> f, wraps |-> 0]

NonError(f) == [message |-> Message({}, FALSE), hasMessage |-> FALSE, failure |-> f, wraps |-> 0]

NoInput == ErrorOf(Message({}, FALSE), 0)

ClassifyIdle == classifyIn = NoInput /\ classifyOut = "none"

AnalyzeIdle == analyzeIn = <<>> /\ analyzeOut = [done |-> FALSE, insights |-> <<>>]

NoAnalysis == [done |-> FALSE, totalRuns |-> 0, flakyTests |-> <<>>, consistentFailures |-> <<>>]

HistoryIdle == historyIn = <<>> /\ historyOut = NoAnalysis

\* an ErrorSummary; run 0 stands for a file that does not exist
NoSummary == [run |-> 0, totalTests |-> 0, totalFailed |-> 0, errors |-> <<>>]

\* a constructed ErrorOnlyReporter, before onBegin
NewReporter(run) ==
    [ run |-> run, running |-> FALSE, totalTests |-> 0, totalPassed |-> 0,
      totalFailed |-> 0, totalSkipped |-> 0, errors |-> <<>> ]

ReporterIdle == reporter = NewReporter(0) /\ dumps = <<>> /\ latestErrors = NoSummary

NoCall == [n |-> 0, op |-> "none", id |-> 0, recovery |-> <<>>]

\* a constructed ErrorReporter: no report, no file
ErrorReporterIdle ==
    /\ reportObjects = <<>>
    /\ reportIndex = {}
    /\ sessionErrors = <<>>
    /\ reportFiles = <<>>
    /\ lastCall = NoCall

NoCapture == [done |-> FALSE, threw |-> FALSE, context |-> <<>>, saved |-> FALSE]

CaptureIdle ==
    /\ captureIn = [failing |-> {}, includeScreenshot |-> TRUE, includeDOM |-> FALSE]
    /\ captureOut = NoCapture

NoOp == [n |-> 0, by |-> "none", op |-> "none", taken |-> FALSE]

SnapshotIdle ==
    /\ errorObjects = <<>>
    /\ sessionId = "session"
    /\ errorRefs = <<>>
    /\ snapshotRefs = <<>>
    /\ snapshotOp = NoOp

NoRetry ==
    [ pc |-> "idle", operationName |-> "", maxRetries |-> [given |-> FALSE, value |-> 0], attempts |-> 0,
      call |-> 0, lastError |-> NoInput, thrown |-> NoInput ]

RetryIdle == retryOp = NoRetry

NoArgs == [fn |-> "none"]

NoResult == [done |-> FALSE]

CallIdle == callIn = NoArgs /\ callOut = NoResult

\* a constructed ContextCapture on a page that has emitted nothing
ListenIdle ==
    /\ isListening = FALSE
    /\ consoleMessages = <<>>
    /\ consoleHandlers = 0
    /\ emitted = <<>>

\* a constructed NetworkHandler on a page that has requested nothing
NoMetrics == [totalRequests |-> 0, successfulRequests |-> 0, failedRequests |-> 0]

NetworkIdle ==
    /\ clock = 0
    /\ pageRequests = <<>>
    /\ activeRequests = {}
    /\ metrics = NoMetrics

ToolsIdle ==
    /\ AnalyzeIdle /\ HistoryIdle /\ ReporterIdle /\ ErrorReporterIdle /\ CaptureIdle
    /\ SnapshotIdle /\ RetryIdle /\ CallIdle /\ ListenIdle /\ NetworkIdle

ErrorType ==
    { "SELECTOR_NOT_FOUND", "STRICT_MODE_VIOLATION", "NETWORK_TIMEOUT",
      "AUTHENTICATION_FAILURE", "ELEMENT_NOT_INTERACTIVE", "NAVIGATION_TIMEOUT",
      "ASSERTION_FAILURE", "UNKNOWN" }

\* mutant: the generic timeout rule tested before the navigation rule
categorizeError_timeoutFirst(error) ==
    LET message == toLowerCase(error.message) IN
    IF includes(message, "strict mode violation")
          \/ (includes(message, "resolved to") /\ includes(message, "elements"))
    THEN "STRICT_MODE_VIOLATION"
    ELSE IF includes(message, "locator") \/ includes(message, "selector")
              \/ includes(message, "not found")
    THEN "SELECTOR_NOT_FOUND"
    ELSE IF includes(message, "timeout") \/ includes(message, "network")
    THEN "NETWORK_TIMEOUT"
    ELSE IF includes(message, "timeout") /\ includes(message, "navigation")
    THEN "NAVIGATION_TIMEOUT"
    ELSE IF includes(message, "login") \/ includes(message, "authentication")
              \/ includes(message, "credential")
    THEN "AUTHENTICATION_FAILURE"
    ELSE IF includes(message, "not clickable") \/ includes(message, "not visible")
              \/ includes(message, "detached")
    THEN "ELEMENT_NOT_INTERACTIVE"
    ELSE IF includes(message, "expect") \/ includes(message, "assertion")
    THEN "ASSERTION_FAILURE"
    ELSE "UNKNOWN"

\* mutant: the message is searched without being lower-cased first
categorizeError_caseSensitive(error) ==
    LET message == error.message IN
    IF includes(message, "strict mode violation")
          \/ (includes(message, "resolved to") /\ includes(message, "elements"))
    THEN "STRICT_MODE_VIOLATION"
    ELSE IF includes(message, "locator") \/ includes(message, "selector")
              \/ includes(message, "not found")
    THEN "SELECTOR_NOT_FOUND"
    ELSE IF includes(message, "timeout") /\ includes(message, "navigation")
    THEN "NAVIGATION_TIMEOUT"
    ELSE IF includes(message, "timeout") \/ includes(message, "network")
    THEN "NETWORK_TIMEOUT"
    ELSE IF includes(message, "login") \/ includes(message, "authentication")
              \/ includes(message, "credential")
    THEN "AUTHENTICATION_FAILURE"
    ELSE IF includes(message, "not clickable") \/ includes(message, "not visible")
              \/ includes(message, "detached")
    THEN "ELEMENT_NOT_INTERACTIVE"
    ELSE IF includes(message, "expect") \/ includes(message, "assertion")
    THEN "ASSERTION_FAILURE"
    ELSE "UNKNOWN"

\* ErrorHandler.categorizeError: the chain of if statements, in source order
categorizeError(error) ==
    LET message == toLowerCase(error.message) IN
    IF includes(message, "strict mode violation")
          \/ (includes(message, "resolved to") /\ includes(message, "elements"))
    THEN "STRICT_MODE_VIOLATION"
    ELSE IF includes(message, "locator") \/ includes(message, "selector")
              \/ includes(message, "not found")
    THEN "SELECTOR_NOT_FOUND"
    ELSE IF includes(message, "timeout") /\ includes(message, "navigation")
    THEN "NAVIGATION_TIMEOUT"
    ELSE IF includes(message, "timeout") \/ includes(message, "network")
    THEN "NETWORK_TIMEOUT"
    ELSE IF includes(message, "login") \/ includes(message, "authentication")
              \/ includes(message, "credential")
    THEN "AUTHENTICATION_FAILURE"
    ELSE IF includes(message, "not clickable") \/ includes(message, "not visible")
              \/ includes(message, "detached")
    THEN "ELEMENT_NOT_INTERACTIVE"
    ELSE IF includes(message, "expect") \/ includes(message, "assertion")
    THEN "ASSERTION_FAILURE"
    ELSE "UNKNOWN"

(***************************************************************************)
(* ErrorHandler: the in-memory buffer and the two files.                   *)
(*                                                                         *)
(* One ErrorHandler instance (one process) is modelled; its fs calls are   *)
(* synchronous, so each runs to completion inside one step.  A file is the *)
(* sequence of its entries; a missing latest file reads as the empty       *)
(* sequence, as loadLatestErrors makes it.                                 *)
(***************************************************************************)
NumWorkers == 2      \* cooperative tasks that call handleError
MaxCalls == 3        \* handleError calls issued in one run
PriorGap == 1        \* earlier sessions left nothing, or LatestCap - PriorGap entries
LatestCap == 100     \* "Keep only last 100 errors in latest file"

Workers == 1..NumWorkers

\* What fails while one handleError call completes: nothing, page.screenshot,
\* or one of the three file operations of writeErrorToLog (at most one fault
\* per call is modelled).
Faults == { "none", "screenshotFails", "appendFails", "readFails", "writeFails" }

\* the outcome of the file operations of one writeErrorToLog call
IoOutcome(fault) ==
    IF fault \in {"appendFails", "readFails", "writeFails"} THEN fault ELSE "ok"

PriorEntry(k) ==
    [ timestamp |-> k, sessionId |-> "earlier", testName |-> "unknown",
      errorType |-> "UNKNOWN", message |-> Message({}, FALSE), screenshotPath |-> "" ]

\* n entries written by earlier sessions, with timestamps -n .. -1
PriorEntries(n) == [ i \in 1..n |-> PriorEntry(i - n - 1) ]

NoTestError ==
    [ type |-> "UNKNOWN", message |-> Message({}, FALSE),
      context |-> [timestamp |-> 0, testName |-> "", screenshotPath |-> ""],
      recoveryAttempted |-> FALSE, recoverySuccessful |-> FALSE ]

\* the value of `test` while no test runs
NoTest ==
    [ pc |-> "idle", phase |-> "none", ret |-> "idle", frames |-> <<>>,
      raised |-> FALSE, exc |-> NoInput, call |-> 0, failures |-> 0,
      status |-> "none", testErrors |-> <<>>, hooks |-> FALSE,
      useRethrows |-> FALSE, expect |-> "none", asserted |-> NoInput,
      expectThrew |-> NoInput ]

TestIdle ==
    /\ test = NoTest
    /\ activeTests = {}
    /\ reports = <<>>

StoreIdle ==
    /\ errors = <<>>
    /\ logFile = <<>>
    /\ latestFile = <<>>
    /\ priorLen = 0
    /\ calls = <<>>
    /\ microtasks = <<>>

\* captureScreenshot: the path of the saved file, '' when page.screenshot raised
captureScreenshot(ok) == IF ok THEN "error-screenshot.png" ELSE ""

\* the errorEntry object built by writeErrorToLog
ErrorEntry(testError) ==
    [ timestamp |-> testError.context.timestamp,
      sessionId |-> sessionId,
      testName |-> IF testError.context.testName = "" THEN "unknown"
                   ELSE testError.context.testName,
      errorType |-> testError.type,
      message |-> testError.message,
      screenshotPath |-> testError.context.screenshotPath ]

\* mutant: the new line is put at the head of the file
appendFileSync_prepend(file, line) == <<line>> \o file

\* mutant: the log is rewritten (writeFileSync) instead of appended to
appendFileSync_overwrite(file, line) == <<line>>

appendFileSync(file, line) == Append(file, line)

\* loadLatestErrors: [] when the file cannot be read or parsed
loadLatestErrors(io) == IF io = "readFails" THEN <<>> ELSE latestFile

\* mutant: the newest entries are dropped instead of the oldest
KeepLast_keepFirst(currentErrors) ==
    IF Len(currentErrors) > LatestCap
    THEN SubSeq(currentErrors, 1, LatestCap)
    ELSE currentErrors

\* currentErrors.splice(0, currentErrors.length - 100) when longer than 100
KeepLast(currentErrors) ==
    IF Len(currentErrors) > LatestCap
    THEN SubSeq(currentErrors, Len(currentErrors) - LatestCap + 1, Len(currentErrors))
    ELSE currentErrors

\* how many of the newest records generateErrorReport lists (slice(-5))
RecentCount == 5

\* generateErrorReport: the total, the count of each type present and the
\* "type: message" lines of the newest records, all read from the buffer
generateErrorReport(buffer) ==
    LET present == { buffer[i].type : i \in DOMAIN buffer }
        first == IF Len(buffer) > RecentCount THEN Len(buffer) - RecentCount + 1 ELSE 1
    IN  [ total |-> Len(buffer),
          counts |-> [ t \in present |->
                         Cardinality({ i \in DOMAIN buffer : buffer[i].type = t }) ],
          recent |-> [ i \in 1..(Len(buffer) - first + 1) |->
                         [ type |-> buffer[first + i - 1].type,
                           message |-> buffer[first + i - 1].message ] ] ]

\* how many suggestions each if statement of getDebuggingSuggestions pushes
SuggestionCount ==
    [ strictMode |-> 4, selector |-> 3, timeout |-> 3, authentication |-> 3,
      assertion |-> 6, general |-> 3 ]

\* the suggestions of one group, in the order they are pushed
Suggestions(group) == [ k \in 1..SuggestionCount[group] |-> [group |-> group, k |-> k] ]

\* mutant: a category counts only when it occurs more than once
HasType_moreThanOne(buffer, t) ==
    Cardinality({ i \in DOMAIN buffer : buffer[i].type = t }) > 1

\* errorCounts[t] > 0, errorCounts being the reduce over the buffer
HasType(buffer, t) ==
    Cardinality({ i \in DOMAIN buffer : buffer[i].type = t }) > 0

\* getDebuggingSuggestions: the suggestions of each kind of error the buffer
\* holds, in the order of the if statements; the general ones if none
getDebuggingSuggestions(buffer) ==
    LET suggestions ==
            (IF HasType(buffer, "STRICT_MODE_VIOLATION")
             THEN Suggestions("strictMode") ELSE <<>>)
         \o (IF HasType(buffer, "SELECTOR_NOT_FOUND")
             THEN Suggestions("selector") ELSE <<>>)
         \o (IF HasType(buffer, "NETWORK_TIMEOUT") \/ HasType(buffer, "NAVIGATION_TIMEOUT")
             THEN Suggestions("timeout") ELSE <<>>)
         \o (IF HasType(buffer, "AUTHENTICATION_FAILURE")
             THEN Suggestions("authentication") ELSE <<>>)
         \o (IF HasType(buffer, "ASSERTION_FAILURE")
             THEN Suggestions("assertion") ELSE <<>>)
    IN  IF Len(suggestions) = 0 THEN Suggestions("general") ELSE suggestions

\* mutant: the newest record survives the clearing
clearErrors_keepsLast(buffer) ==
    IF buffer = <<>> THEN <<>> ELSE <<buffer[Len(buffer)]>>

\* clearErrors: this.errors = []
clearErrors(buffer) == <<>>

\* getErrors: [...this.errors], a new array holding the same elements
getErrors(buffer) == [ i \in 1..Len(buffer) |-> buffer[i] ]

\* mutant: the write is started but not completed before handleError returns
writeErrorToLog_notAwaited(testError, io) == [log |-> logFile, latest |-> latestFile]

\* writeErrorToLog: the contents of the two files after the call.  The first
\* operation that raises ends the try block.
writeErrorToLog(testError, io) ==
    LET errorEntry == ErrorEntry(testError)
        appended == appendFileSync(logFile, errorEntry)
        currentErrors == KeepLast(Append(loadLatestErrors(io), errorEntry))
    IN  IF io = "appendFails" THEN [log |-> logFile, latest |-> latestFile]
        ELSE IF io = "writeFails" THEN [log |-> appended, latest |-> latestFile]
        ELSE [log |-> appended, latest |-> currentErrors]

\* mutant: writeErrorToLog without its try/catch
writeErrorToLogThrows_noCatch(io) == io \in {"appendFails", "writeFails"}

\* whether writeErrorToLog raises: its catch block swallows every exception
writeErrorToLogThrows(io) == FALSE

\* mutant: handleError returns before the screenshot, the push and the write
Settled_early(c) == calls[c].pc \in {"captureScreenshot", "resolved", "rejected"}

\* the promise returned by handleError call c is settled, so `await` returns
Settled(c) == calls[c].pc \in {"resolved", "rejected"}

Resolved(c) == calls[c].pc = "resolved"

\* worker w is suspended in `await handleError(...)`
Awaiting(w) == \E c \in DOMAIN calls : calls[c].task = w /\ ~Settled(c)

\* handleError up to its first await: categorizeError raises a TypeError on a
\* value without message (the promise is rejected); otherwise captureContext
\* runs and its continuation is queued.
IssueHandleError(w, error, testName) ==
    LET c == Len(calls) + 1 IN
    IF ~error.hasMessage
    THEN /\ calls' = Append(calls,
                [ task |-> w, error |-> error, testName |-> testName,
                  type |-> "UNKNOWN", pc |-> "rejected", io |-> "none",
                  result |-> NoTestError ])
         /\ UNCHANGED microtasks
    ELSE /\ calls' = Append(calls,
                [ task |-> w, error |-> error, testName |-> testName,
                  type |-> categorizeError(error), pc |-> "captureContext",
                  io |-> "none", result |-> NoTestError ])
         /\ microtasks' = Append(microtasks, c)

\* a worker calls `await handleError(error, page, testName)`
HandleErrorCall(w, error) ==
    /\ Len(calls) < MaxCalls
    /\ ~Awaiting(w)
    /\ IssueHandleError(w, error, ToString(w))
    /\ UNCHANGED <<errors, logFile, latestFile, priorLen, classifyVars, testVars, toolVars>>

\* handleError resumes after `await captureContext`: builds testError and
\* starts page.screenshot
ResumeAfterContext ==
    /\ microtasks # <<>>
    /\ LET c == Head(microtasks) IN
        /\ calls' = [calls EXCEPT ![c].pc = "captureScreenshot"]
        /\ microtasks' = Tail(microtasks)
    /\ UNCHANGED <<errors, logFile, latestFile, priorLen, classifyVars, testVars, toolVars>>

\* page.screenshot settles (ok or not): handleError sets screenshotPath, pushes
\* the record, writes the files and returns.  An I/O completion is handled
\* only when no microtask is queued.
ScreenshotSettles(c, fault) ==
    /\ calls[c].pc = "captureScreenshot"
    /\ microtasks = <<>>
    /\ LET ok == fault # "screenshotFails"
           io == IoOutcome(fault)
           testError ==
              [ type |-> calls[c].type,
                message |-> calls[c].error.message,
                context |-> [ timestamp |-> c,
                              testName |-> calls[c].testName,
                              screenshotPath |-> captureScreenshot(ok) ],
                recoveryAttempted |-> FALSE,
                recoverySuccessful |-> FALSE ]
           written == writeErrorToLog(testError, io)
       IN  /\ errors' = Append(errors, testError)
           /\ logFile' = written.log
           /\ latestFile' = written.latest
           /\ calls' = [calls EXCEPT
                  ![c].pc = IF writeErrorToLogThrows(io) THEN "rejected" ELSE "resolved",
                  ![c].io = io,
                  ![c].result = testError]
    /\ UNCHANGED <<priorLen, microtasks, classifyVars, testVars, toolVars>>

\* errors thrown by the operations the workers run
ErrorInputs(f) == { ErrorOf(Message({"timeout"}, TRUE), f), NonError(f) }

Init ==
    /\ ClassifyIdle
    /\ ToolsIdle
    /\ TestIdle
    /\ priorLen \in {0, LatestCap - PriorGap}
    /\ logFile = PriorEntries(priorLen)
    /\ latestFile = PriorEntries(priorLen)
    /\ errors = <<>>
    /\ calls = <<>>
    /\ microtasks = <<>>

Next ==
    \/ \E w \in Workers : \E error \in ErrorInputs(Len(calls) + 1) : HandleErrorCall(w, error)
    \/ ResumeAfterContext
    \/ \E c \in DOMAIN calls : \E fault \in Faults : ScreenshotSettles(c, fault)

Spec == Init /\ [][Next]_vars

(***************************************************************************)
(* Claims about one ErrorHandler instance (checked under Spec).            *)
(***************************************************************************)
WriteFailed(c) == calls[c].io \in {"appendFails", "writeFails"}

\* no file operation of any writeErrorToLog call has failed so far
NoFileFailure == \A c \in DOMAIN calls : calls[c].io \in {"none", "ok"}

\* the lines this session appended to the day's log
NewLines == SubSeq(logFile, priorLen + 1, Len(logFile))

BufferPositions(c) == { i \in DOMAIN errors : errors[i].context.timestamp = c }

LinePositions(c) == { i \in DOMAIN NewLines : NewLines[i].timestamp = c }

InBuffer(c) == BufferPositions(c) # {}

InLog(c) == LinePositions(c) # {}

\* call c pushed a record (still in the buffer, or cleared after a report)
InBufferOrReported(c) == calls[c].result # NoTestError

BufferPos(c) == CHOOSE i \in BufferPositions(c) : TRUE

LinePos(c) == CHOOSE i \in LinePositions(c) : TRUE

\* every entry ever handed to writeErrorToLog, earlier sessions first, in the
\* order the records were made
AllEntries == PriorEntries(priorLen) \o [ i \in DOMAIN errors |-> ErrorEntry(errors[i]) ]

LastN(seq, n) == IF Len(seq) > n THEN SubSeq(seq, Len(seq) - n + 1, Len(seq)) ELSE seq

\* C1: once all K issued calls have resolved and no write failed, the buffer
\* holds exactly K records and the day's log exactly K new lines, one of each
\* per call, whatever the interleaving of the calls.
C1_NoLostNoDuplicate ==
    (/\ calls # <<>>
     /\ \A c \in DOMAIN calls : Resolved(c) /\ ~WriteFailed(c))
        => /\ Len(errors) = Len(calls)
           /\ Len(NewLines) = Len(calls)
           /\ \A c \in DOMAIN calls :
                /\ Cardinality(BufferPositions(c)) = 1
                /\ Cardinality(LinePositions(c)) = 1

\* MaxCalls calls overlapped (the second issued was recorded first), all
\* resolved without a write failure
C1_Witness ==
    /\ Len(calls) = MaxCalls
    /\ \A c \in DOMAIN calls : Resolved(c) /\ ~WriteFailed(c)
    /\ Len(errors) = MaxCalls
    /\ errors[1].context.timestamp > errors[2].context.timestamp

C5_WriteFailureNotRaised ==
    \A c \in DOMAIN calls :
        WriteFailed(c) =>
            /\ Resolved(c)
            /\ calls[c].result.context.timestamp = c
            /\ \E i \in DOMAIN errors : errors[i] = calls[c].result

\* the append of a call failed: the call resolved, its record is in the
\* buffer and the log has no line for it
C5_Witness ==
    \E c \in DOMAIN calls :
        /\ calls[c].io = "appendFails"
        /\ Resolved(c)
        /\ InBuffer(c)
        /\ ~InLog(c)

\* C6: in the step in which a call resolves, its record is already in the
\* buffer and, unless the write failed, its line is in the day's log and its
\* entry is the newest of the latest file.
C6_RecordThenContinue ==
    [][ \A c \in DOMAIN calls :
          (~Resolved(c) /\ Resolved(c)') =>
              /\ InBuffer(c)'
              /\ ~WriteFailed(c)' =>
                    /\ InLog(c)'
                    /\ latestFile' # <<>>
                    /\ latestFile'[Len(latestFile')] = ErrorEntry(calls'[c].result) ]_vars

\* a call has resolved with its line and entry written while another call is
\* still waiting for its screenshot
C6_Witness ==
    \E c, d \in DOMAIN calls :
        /\ Resolved(c) /\ calls[c].io = "ok"
        /\ InBuffer(c) /\ InLog(c)
        /\ latestFile[Len(latestFile)] = ErrorEntry(calls[c].result)
        /\ calls[d].pc = "captureScreenshot"

\* C7: two calls issued by the same worker are recorded in the order they were
\* issued, in the buffer and in the day's log.
C7_PerWorkerFifo ==
    \A c1, c2 \in DOMAIN calls :
        (c1 < c2 /\ calls[c1].task = calls[c2].task) =>
            /\ (InBuffer(c1) /\ InBuffer(c2)) => BufferPos(c1) < BufferPos(c2)
            /\ (InLog(c1) /\ InLog(c2)) => LinePos(c1) < LinePos(c2)

\* one worker's two calls are recorded in order while a call another worker
\* issued before them is recorded after the first of them
C7_Witness ==
    \E c1, c2, c3 \in DOMAIN calls :
        /\ c3 < c1 /\ c1 < c2
        /\ calls[c1].task = calls[c2].task /\ calls[c3].task # calls[c1].task
        /\ InBuffer(c1) /\ InBuffer(c2) /\ InBuffer(c3)
        /\ InLog(c1) /\ InLog(c2) /\ InLog(c3)
        /\ BufferPos(c1) < BufferPos(c3)
        /\ BufferPos(c1) < BufferPos(c2)

\* the entries of the buffer whose append to the day's log did not fail
AppendedEntries ==
    SelectSeq([ i \in DOMAIN errors |-> ErrorEntry(errors[i]) ],
              LAMBDA e : calls[e.timestamp].io # "appendFails")

\* C26: under every interleaving of concurrent handleError calls the lines
\* appended to the day's log are the records of the buffer in the same order
\* (those whose append failed left out)
C26_LogOrderIsBufferOrder == NewLines = AppendedEntries

\* three calls were recorded, the second issued first, and
\* their lines are in the log in the order of the buffer
C26_Witness ==
    /\ Len(errors) = 3
    /\ Len(NewLines) = 3
    /\ errors[1].context.timestamp = 2
    /\ NewLines[1].timestamp = 2
    /\ NewLines[3].timestamp = errors[3].context.timestamp

(***************************************************************************)
(* SpecClassify: every message over the classifier's keywords, lower-case  *)
(* or capitalised, is classified once.                                     *)
(***************************************************************************)
ClassifyMessages ==
    { Message(ws, up) : ws \in SUBSET ClassifierKeywords, up \in BOOLEAN }

InitClassify ==
    /\ classifyIn \in { ErrorOf(m, 0) : m \in ClassifyMessages }
    /\ classifyOut = "none"
    /\ StoreIdle
    /\ TestIdle
    /\ ToolsIdle

Classify ==
    /\ classifyOut = "none"
    /\ classifyOut' = categorizeError(classifyIn)
    /\ UNCHANGED <<classifyIn, storeVars, testVars, toolVars>>

NextClassify == Classify

SpecClassify == InitClassify /\ [][NextClassify]_vars

\* the keyword k occurs in the message, in any letter case
Has(m, k) == k \in m.words

(***************************************************************************)
(* Claims about categorizeError (checked under SpecClassify).              *)
(***************************************************************************)
Classified == classifyOut # "none"

MatchesStrictRule(m) ==
    Has(m, "strict mode violation") \/ (Has(m, "resolved to") /\ Has(m, "elements"))

MatchesSelectorRule(m) ==
    Has(m, "locator") \/ Has(m, "selector") \/ Has(m, "not found")

\* C8 as stated: every message that contains both "timeout" and "navigation"
\* (in any letter case), whatever else it contains, is classified
\* NAVIGATION_TIMEOUT and never NETWORK_TIMEOUT.
C8_NavigationWhateverElse ==
    (Classified /\ Has(classifyIn.message, "timeout") /\ Has(classifyIn.message, "navigation"))
        => classifyOut = "NAVIGATION_TIMEOUT"

\* C8 amended: a message that contains both "timeout" and "navigation" is never
\* classified NETWORK_TIMEOUT; it is classified NAVIGATION_TIMEOUT exactly when
\* neither the strict-mode rule nor the selector rule (locator / selector /
\* not found), which are tested earlier, matches it.
C8_NavigationBeforeNetwork ==
    (Classified /\ Has(classifyIn.message, "timeout") /\ Has(classifyIn.message, "navigation"))
        => /\ classifyOut # "NETWORK_TIMEOUT"
           /\ (classifyOut = "NAVIGATION_TIMEOUT")
                <=> (~MatchesStrictRule(classifyIn.message) /\ ~MatchesSelectorRule(classifyIn.message))
           /\ MatchesStrictRule(classifyIn.message) => classifyOut = "STRICT_MODE_VIOLATION"

\* a capitalised message with timeout, navigation, network and later-rule
\* keywords has been classified NAVIGATION_TIMEOUT
C8_Witness ==
    /\ Classified
    /\ classifyIn.message.upper
    /\ {"timeout", "navigation", "network", "login", "expect"} \subseteq classifyIn.message.words
    /\ classifyOut = "NAVIGATION_TIMEOUT"

\* The ordered decision list of the specification: rule i of 1..8 and its category
RuleCategory ==
    << "STRICT_MODE_VIOLATION", "SELECTOR_NOT_FOUND", "NAVIGATION_TIMEOUT",
       "NETWORK_TIMEOUT", "AUTHENTICATION_FAILURE", "ELEMENT_NOT_INTERACTIVE",
       "ASSERTION_FAILURE", "UNKNOWN" >>

RuleMatches(i, m) ==
    CASE i = 1 -> MatchesStrictRule(m)
      [] i = 2 -> MatchesSelectorRule(m)
      [] i = 3 -> Has(m, "timeout") /\ Has(m, "navigation")
      [] i = 4 -> Has(m, "timeout") \/ Has(m, "network")
      [] i = 5 -> Has(m, "login") \/ Has(m, "authentication") \/ Has(m, "credential")
      [] i = 6 -> Has(m, "not clickable") \/ Has(m, "not visible") \/ Has(m, "detached")
      [] i = 7 -> Has(m, "expect") \/ Has(m, "assertion")
      [] OTHER -> TRUE

FirstMatchingRule(m) ==
    CHOOSE i \in 1..8 : RuleMatches(i, m) /\ \A j \in 1..(i - 1) : ~RuleMatches(j, m)

\* a few messages, used to show that every category is produced
SampleMessages ==
    { Message(ws, FALSE) :
        ws \in {{k} : k \in ClassifierKeywords} \cup {{}, {"timeout", "navigation"}} }

\* C9: categorizeError returns, for every message, the category of the first
\* rule of the ordered eight-rule decision list that the message matches
\* (UNKNOWN when no keyword is recognised), and every one of the eight
\* categories is produced by some message.
C9_DecisionList ==
    Classified =>
        /\ classifyOut \in ErrorType
        /\ classifyOut = RuleCategory[FirstMatchingRule(classifyIn.message)]
        /\ (classifyIn.message.words = {}) =>
              /\ classifyOut = "UNKNOWN"
              /\ \A t \in ErrorType : \E m \in SampleMessages : categorizeError(ErrorOf(m, 0)) = t

\* a capitalised message matching rules 4, 5 and 7 only has been classified by rule 4
C9_Witness ==
    /\ Classified
    /\ classifyIn.message = Message({"network", "credential", "assertion"}, TRUE)
    /\ classifyOut = "NETWORK_TIMEOUT"


(***************************************************************************)
(* SpecTest: one test run through the homePage fixture.                    *)
(*                                                                         *)
(* The test is one task; every handleError call it makes is awaited, and   *)
(* completes through ResumeAfterContext and ScreenshotSettles.  A thrown   *)
(* value travels outwards through `frames`, the try/catch blocks it is     *)
(* inside of, innermost last.  Each failure raised by the page or by an    *)
(* assertion carries its own number, which a wrapping Error keeps.         *)
(***************************************************************************)
TestTask == 1

TestId == "test_1"

TestTitle == "test"

\* the fault set of the handleError calls of a test run
TestFaults == { "none", "appendFails" }

\* `${operationName} failed: ${lastError.message}`; the operation names used
\* hold no keyword except 'safe locator operation: ...'
OperationNameWords(operationName) ==
    IF operationName = "safe locator operation" THEN {"locator"} ELSE {}

\* new Error(`${operationName} failed: ${lastError.message}`)
WrappedError(operationName, lastError) ==
    [ message |-> Message(lastError.message.words \cup OperationNameWords(operationName),
                          lastError.message.upper),
      hasMessage |-> TRUE, failure |-> lastError.failure, wraps |-> lastError.wraps + 1 ]

\* the TypeError raised by reading a property of undefined
TypeErrorValue == ErrorOf(Message({}, TRUE), 0)

\* enhanceStrictModeErrorMessage: the original message followed by guidance
\* that names selectors, locators and elements
enhanceStrictModeErrorMessage(m) ==
    Message(m.words \cup {"strict mode violation", "selector", "locator", "elements"}, m.upper)

\* the catch block inside waitForElementSafe
waitForElementSafeCatch(error) ==
    IF ~error.hasMessage
    THEN TypeErrorValue
    ELSE IF includes(error.message, "strict mode violation")
    THEN [ message |-> enhanceStrictModeErrorMessage(error.message), hasMessage |-> TRUE,
           failure |-> error.failure, wraps |-> error.wraps + 1 ]
    ELSE error

\* errors Playwright raises from a page operation
PageErrors(f) ==
    { ErrorOf(Message({"timeout"}, TRUE), f),
      ErrorOf(Message({"strict mode violation", "locator", "resolved to", "elements"}, FALSE), f) }

\* values an assertion callback raises: an expect() failure, or any value
AssertionErrors(f) ==
    { ErrorOf(Message({"expect", "received"}, FALSE), f), NonError(f) }

Frame(fn, name) == [ fn |-> fn, name |-> name ]

\* what the test body calls, and the try/catch blocks around the failing
\* statement, outermost first
Operations ==
    { [ name |-> "selectOption", frames |-> <<>>, assertion |-> FALSE ],
      [ name |-> "expect", frames |-> <<>>, assertion |-> TRUE ],
      [ name |-> "clickElement",
        frames |-> << Frame("retryOperation", "click") >>, assertion |-> FALSE ],
      [ name |-> "safeClick.waitFor",
        frames |-> << Frame("retryOperation", "safeClick"),
                      Frame("retryOperation", "waitForElement"),
                      Frame("waitForElementSafe", "") >>, assertion |-> FALSE ],
      [ name |-> "safeClick.click",
        frames |-> << Frame("retryOperation", "safeClick") >>, assertion |-> FALSE ],
      [ name |-> "expectWithCapture",
        frames |-> << Frame("expectWithCapture", TestTitle) >>, assertion |-> TRUE ] }

OperationErrors(op, f) == IF op.assertion THEN AssertionErrors(f) ELSE PageErrors(f)

\* the statement being run throws `error` inside the try blocks `frames`
Raise(error, frames, ret) ==
    test' = [test EXCEPT !.pc = "unwind", !.raised = TRUE, !.exc = error,
                         !.frames = frames, !.ret = ret,
                         !.failures = test.failures + 1]

TopFrame == test.frames[Len(test.frames)]

PopFrame == SubSeq(test.frames, 1, Len(test.frames) - 1)

\* TestIsolation.beforeTest up to ensureUserLoggedOut (clearBrowserState
\* swallows its own errors)
BeforeTest ==
    /\ test.pc = "start"
    /\ activeTests' = activeTests \cup {TestId}
    /\ test' = [test EXCEPT !.pc = "setupLogout", !.phase = "setup"]
    /\ UNCHANGED <<classifyVars, storeVars, reports, toolVars>>

\* UserManager.ensureUserLoggedOut, called by beforeTest and by afterTest:
\* homePage.goto() runs page.goto inside retryOperation('goto'); whatever is
\* thrown is caught and logged
EnsureUserLoggedOut(gotoFails, error) ==
    /\ test.pc \in {"setupLogout", "cleanupLogout"}
    /\ LET next == IF test.pc = "setupLogout" THEN "setupWait" ELSE "afterTestReport" IN
       IF gotoFails
       THEN Raise(error, << Frame("ensureUserLoggedOut", ""), Frame("retryOperation", "goto") >>, next)
       ELSE test' = [test EXCEPT !.pc = next]
    /\ UNCHANGED <<classifyVars, storeVars, activeTests, reports, toolVars>>

\* beforeTest: page.waitForLoadState inside the try block
SetupWait(fails, error) ==
    /\ test.pc = "setupWait"
    /\ IF fails
       THEN Raise(error, << Frame("beforeTest", TestTitle) >>, "none")
       ELSE test' = [test EXCEPT !.pc = "body", !.phase = "body"]
    /\ UNCHANGED <<classifyVars, storeVars, activeTests, reports, toolVars>>

\* the test body runs an operation that succeeds; the test passes
OperationSucceeds(op) ==
    /\ test.pc = "body"
    /\ test' = [test EXCEPT !.pc = "afterEach", !.status = "passed",
                   !.expect = IF op.name = "expectWithCapture" THEN "returned" ELSE "none"]
    /\ UNCHANGED <<classifyVars, storeVars, activeTests, reports, toolVars>>

\* the test body runs an operation whose innermost statement throws
OperationThrows(op, error) ==
    /\ test.pc = "body"
    /\ test' = [test EXCEPT !.pc = "unwind", !.raised = TRUE, !.exc = error,
                   !.frames = op.frames, !.failures = test.failures + 1,
                   !.asserted = IF op.name = "expectWithCapture" THEN error ELSE @]
    /\ UNCHANGED <<classifyVars, storeVars, activeTests, reports, toolVars>>

\* a catch block that records: retryOperation, expectWithCapture and
\* beforeTest call `await handleError(error, page, name)`
CatchAndRecord ==
    /\ test.pc = "unwind"
    /\ test.frames # <<>>
    /\ TopFrame.fn \in {"retryOperation", "expectWithCapture", "beforeTest"}
    /\ IssueHandleError(TestTask, test.exc, TopFrame.name)
    /\ test' = [test EXCEPT !.pc = "awaitHandleError", !.call = Len(calls) + 1]
    /\ UNCHANGED <<errors, logFile, latestFile, priorLen, classifyVars, activeTests, reports, toolVars>>

\* what the catch block throws once handleError has settled: the rejection
\* of handleError if it rejected, a new Error in retryOperation, the caught
\* error itself in expectWithCapture and beforeTest
Rethrown(frame, error, resolved) ==
    IF ~resolved
    THEN TypeErrorValue
    ELSE IF frame.fn = "retryOperation" THEN WrappedError(frame.name, error) ELSE error

\* the awaited handleError call has settled and the catch block throws
AfterHandleError ==
    /\ test.pc = "awaitHandleError"
    /\ Settled(test.call)
    /\ LET thrown == Rethrown(TopFrame, test.exc, Resolved(test.call)) IN
       test' = [test EXCEPT !.pc = "unwind", !.exc = thrown, !.frames = PopFrame,
                   !.expect = IF TopFrame.fn = "expectWithCapture" THEN "threw" ELSE @,
                   !.expectThrew = IF TopFrame.fn = "expectWithCapture" THEN thrown ELSE @]
    /\ UNCHANGED <<classifyVars, storeVars, activeTests, reports, toolVars>>

\* the try/catch inside waitForElementSafe rethrows, enhancing a strict mode
\* violation
EnhanceAndRethrow ==
    /\ test.pc = "unwind"
    /\ test.frames # <<>>
    /\ TopFrame.fn = "waitForElementSafe"
    /\ test' = [test EXCEPT !.exc = waitForElementSafeCatch(test.exc), !.frames = PopFrame]
    /\ UNCHANGED <<classifyVars, storeVars, activeTests, reports, toolVars>>

\* the catch block of ensureUserLoggedOut logs the error and returns
SwallowError ==
    /\ test.pc = "unwind"
    /\ test.frames # <<>>
    /\ TopFrame.fn = "ensureUserLoggedOut"
    /\ test' = [test EXCEPT !.pc = test.ret, !.raised = FALSE, !.frames = <<>>]
    /\ UNCHANGED <<classifyVars, storeVars, activeTests, reports, toolVars>>

\* the thrown value leaves beforeTest or the test body: the test has failed
TestFails ==
    /\ test.pc = "unwind"
    /\ test.frames = <<>>
    /\ test' = [test EXCEPT !.pc = "afterEach", !.status = "failed",
                   !.testErrors = << test.exc >>]
    /\ UNCHANGED <<classifyVars, storeVars, activeTests, reports, toolVars>>

\* the afterEach hook of TestHooks.setupGlobalHooks, where it is installed
AfterEachHook ==
    /\ test.pc = "afterEach"
    /\ IF test.hooks /\ test.status = "failed"
       THEN /\ IssueHandleError(TestTask, test.testErrors[1], TestTitle)
            /\ test' = [test EXCEPT !.pc = "awaitHook", !.call = Len(calls) + 1]
       ELSE /\ test' = [test EXCEPT !.pc = "teardown"]
            /\ UNCHANGED <<calls, microtasks>>
    /\ UNCHANGED <<errors, logFile, latestFile, priorLen, classifyVars, activeTests, reports, toolVars>>

\* the hook's handleError call has settled; a rejection is one more test error
HookSettles ==
    /\ test.pc = "awaitHook"
    /\ Settled(test.call)
    /\ test' = [test EXCEPT !.pc = "teardown",
                   !.testErrors = IF Resolved(test.call) THEN @ ELSE Append(@, TypeErrorValue)]
    /\ UNCHANGED <<classifyVars, storeVars, activeTests, reports, toolVars>>

\* the homePage fixture after `use`: when beforeTest threw, the fixture never
\* entered its try block; the catch block runs onTestFailure when `use`
\* rethrows the test's error; the finally block runs afterTest
FixtureTeardown ==
    /\ test.pc = "teardown"
    /\ IF test.phase = "setup"
       THEN /\ test' = [test EXCEPT !.pc = "end"]
            /\ UNCHANGED <<calls, microtasks>>
       ELSE IF test.status = "failed" /\ test.useRethrows
       THEN /\ IssueHandleError(TestTask, test.testErrors[1], TestTitle)
            /\ test' = [test EXCEPT !.pc = "awaitOnTestFailure", !.call = Len(calls) + 1]
       ELSE /\ test' = [test EXCEPT !.pc = "cleanupLogout", !.phase = "cleanup"]
            /\ UNCHANGED <<calls, microtasks>>
    /\ UNCHANGED <<errors, logFile, latestFile, priorLen, classifyVars, activeTests, reports, toolVars>>

\* onTestFailure: its handleError call has settled; a rejection is caught
OnTestFailureSettles ==
    /\ test.pc = "awaitOnTestFailure"
    /\ Settled(test.call)
    /\ test' = [test EXCEPT !.pc = "cleanupLogout", !.phase = "cleanup"]
    /\ UNCHANGED <<classifyVars, storeVars, activeTests, reports, toolVars>>

\* mutant: a single record is not reported
HasErrors_moreThanOne(snapshot) == Len(snapshot) > 1

\* afterTest: if (errors.length > 0)
HasErrors(snapshot) == Len(snapshot) > 0

\* afterTest after ensureUserLoggedOut: prints the report of a non-empty
\* buffer and clears it, then forgets the test id
AfterTestReport ==
    /\ test.pc = "afterTestReport"
    /\ IF HasErrors(getErrors(errors))
       THEN /\ reports' = Append(reports,
                    [ printed |-> generateErrorReport(errors), buffer |-> errors ])
            /\ errors' = clearErrors(errors)
       ELSE UNCHANGED <<reports, errors>>
    /\ activeTests' = activeTests \ {TestId}
    /\ test' = [test EXCEPT !.pc = "end"]
    /\ UNCHANGED <<logFile, latestFile, priorLen, calls, microtasks, classifyVars, toolVars>>

InitTest ==
    /\ ClassifyIdle
    /\ ToolsIdle
    /\ StoreIdle
    /\ test \in { [NoTest EXCEPT !.pc = "start", !.hooks = h, !.useRethrows = u] :
                    h \in BOOLEAN, u \in BOOLEAN }
    /\ activeTests = {}
    /\ reports = <<>>

NextTest ==
    \/ BeforeTest
    \/ \E gotoFails \in BOOLEAN : \E error \in PageErrors(test.failures + 1) :
          EnsureUserLoggedOut(gotoFails, error)
    \/ \E fails \in BOOLEAN : \E error \in PageErrors(test.failures + 1) :
          SetupWait(fails, error)
    \/ \E op \in Operations : OperationSucceeds(op)
    \/ \E op \in Operations : \E error \in OperationErrors(op, test.failures + 1) :
          OperationThrows(op, error)
    \/ CatchAndRecord
    \/ AfterHandleError
    \/ EnhanceAndRethrow
    \/ SwallowError
    \/ TestFails
    \/ AfterEachHook
    \/ HookSettles
    \/ FixtureTeardown
    \/ OnTestFailureSettles
    \/ AfterTestReport
    \/ ResumeAfterContext
    \/ \E c \in DOMAIN calls : \E fault \in TestFaults : ScreenshotSettles(c, fault)

SpecTest == InitTest /\ [][NextTest]_vars

(***************************************************************************)
(* Claims about a test run (checked under SpecTest).                       *)
(***************************************************************************)
TestEnded == test.pc = "end"

\* the handleError calls that pushed a record of failure f
RecordsOf(f) == { c \in DOMAIN calls : calls[c].error.failure = f /\ InBufferOrReported(c) }

\* the lines of the day's log that record failure f
LogLinesOf(f) ==
    { i \in DOMAIN logFile :
        \E c \in DOMAIN calls : calls[c].error.failure = f /\ logFile[i].timestamp = c }

\* C3 as stated: every failure is recorded exactly once.  When the test has
\* ended and no file operation failed, each error raised by a page operation
\* or an assertion has exactly one record and one log line, whatever wrappers
\* it passed through.
C3_RecordedExactlyOnce ==
    (TestEnded /\ NoFileFailure) =>
        \A f \in 1..test.failures :
            /\ Cardinality(RecordsOf(f)) = 1
            /\ Cardinality(LogLinesOf(f)) = 1

\* C4 as stated: when the wrapped assertion throws e, expectWithCapture ends
\* by throwing that same e, whatever happens while the failure is recorded;
\* when it does not throw, nothing is recorded and the call returns.
C4_NeverMasks ==
    /\ (test.expect = "threw") => test.expectThrew = test.asserted
    /\ (test.expect = "returned" /\ test.pc = "afterEach") =>
            \A c \in DOMAIN calls : calls[c].testName # TestTitle

\* a step that removes a record from the in-memory buffer
BufferShrinks == \E i \in DOMAIN errors : i \notin DOMAIN errors' \/ errors'[i] # errors[i]

\* the report afterTest prints when it runs on the current buffer
PrintedNow == [ printed |-> generateErrorReport(errors), buffer |-> errors ]

\* every record of the buffer is counted in the report printed from it
CountsWhole(report) ==
    /\ report.printed.total = Len(report.buffer)
    /\ \A t \in ErrorType :
         Cardinality({ i \in DOMAIN report.buffer : report.buffer[i].type = t })
           = IF t \in DOMAIN report.printed.counts THEN report.printed.counts[t] ELSE 0

\* C19: only afterTest empties the buffer; it clears exactly when the buffer
\* is non-empty, right after printing a report that counts the whole buffer,
\* and when it has returned no record made before it remains
C19_ClearedOnlyAfterReport ==
    [][ /\ BufferShrinks =>
             /\ test.pc = "afterTestReport"
             /\ errors' = <<>>
             /\ reports' = Append(reports, PrintedNow)
             /\ CountsWhole(PrintedNow)
        /\ (test.pc = "afterTestReport" /\ test'.pc = "end") =>
             /\ errors' = <<>>
             /\ (errors # <<>>) <=> (reports' # reports) ]_vars

\* afterTest has returned after printing a report of two or more records
C19_Witness ==
    /\ test.pc = "end"
    /\ errors = <<>>
    /\ reports # <<>>
    /\ reports[Len(reports)].printed.total >= 2
    /\ Len(logFile) >= 2

\* C27: activeTests holds exactly the ids of the tests in progress: the id
\* is in the set from beforeTest on, and once the test is over (passed,
\* failed, or failed during beforeTest's setup) the set is empty
C27_ActiveTestsExact ==
    /\ test.pc = "start" => activeTests = {}
    /\ test.phase \in {"setup", "body"} /\ test.pc \notin {"teardown", "end"} => activeTests = {TestId}
    /\ TestEnded => activeTests = {}

(***************************************************************************)
(* SpecAnalyze: FailureSummary.analyzeErrors applied to every list of at   *)
(* most MaxRecords entries of the reporter's error log.                    *)
(***************************************************************************)
MaxRecords == 6      \* entries in the list handed to analyzeErrors

\* an ErrorLogEntry: the fields analyzeErrors reads
ErrorLogEntry(testName, projectName, message, retry) ==
    [ testName |-> testName, projectName |-> projectName,
      error |-> [message |-> message], context |-> [retry |-> retry] ]

\* one entry per kind of failure: element not found, timeout, network error
\* without the word timeout, authentication failure on a retry, failed
\* expectation, and an unrecognised error in a test named Login
SampleEntries ==
    { ErrorLogEntry(Message({}, FALSE), "chromium", Message({"locator"}, FALSE), 0),
      ErrorLogEntry(Message({}, FALSE), "chromium", Message({"timeout"}, TRUE), 0),
      ErrorLogEntry(Message({}, FALSE), "firefox", Message({"network"}, FALSE), 0),
      ErrorLogEntry(Message({}, FALSE), "chromium", Message({"authentication"}, TRUE), 1),
      ErrorLogEntry(Message({}, FALSE), "chromium", Message({"expect", "received"}, FALSE), 0),
      ErrorLogEntry(Message({"login"}, TRUE), "firefox", Message({}, FALSE), 0) }

\* Array.prototype.map(e => e.testName)
TestNamesOf(seq) == [ i \in DOMAIN seq |-> seq[i].testName ]

Insight(category, matching, priority) ==
    [ category |-> category, count |-> Len(matching),
      affectedTests |-> TestNamesOf(matching), priority |-> priority ]

\* insights.push(...) guarded by `if (matching.length > 0)`
PushIf(insights, category, matching, priority) ==
    IF Len(matching) > 0 THEN Append(insights, Insight(category, matching, priority)) ELSE insights

IsTimeoutError(e) == includes(toLowerCase(e.error.message), "timeout")

IsSelectorError(e) ==
    LET msg == toLowerCase(e.error.message) IN
    includes(msg, "locator") \/ includes(msg, "selector") \/ includes(msg, "not found")

IsAssertionError(e) ==
    LET msg == toLowerCase(e.error.message) IN
    includes(msg, "expect") \/ includes(msg, "assertion") \/ includes(msg, "received")

IsAuthError(e) ==
    LET msg == toLowerCase(e.error.message) IN
    \/ includes(msg, "login") \/ includes(msg, "auth") \/ includes(msg, "credential")
    \/ includes(msg, "permission")
    \/ includes(toLowerCase(e.testName), "login")

IsRetried(e) == e.context.retry > 0

\* the keys of groupBy(errors, e => e.projectName), in insertion order
RECURSIVE ProjectKeys(_)
ProjectKeys(seq) ==
    IF seq = <<>> THEN <<>>
    ELSE LET init == ProjectKeys(SubSeq(seq, 1, Len(seq) - 1))
             p == seq[Len(seq)].projectName
         IN  IF \E i \in DOMAIN init : init[i] = p THEN init ELSE Append(init, p)

\* the forEach over the project groups: one insight per project that holds
\* more than 80% of the errors, when there is more than one project
RECURSIVE ProjectInsights(_, _, _)
ProjectInsights(insights, keys, errs) ==
    IF keys = <<>> THEN insights
    ELSE LET project == Head(keys)
             projectErrors == SelectSeq(errs, LAMBDA e : e.projectName = project)
             found == 10 * Len(projectErrors) > 8 * Len(errs)
                        /\ Len(ProjectKeys(errs)) > 1
         IN  ProjectInsights(
                IF found
                THEN Append(insights, Insight("Project-Specific Issues", projectErrors, "medium"))
                ELSE insights,
                Tail(keys), errs)

priorityOrder(priority) ==
    CASE priority = "high" -> 3
      [] priority = "medium" -> 2
      [] priority = "low" -> 1

\* insights.sort by priorityOrder, descending; Array.prototype.sort is stable
SortByPriority(insights) ==
    SelectSeq(insights, LAMBDA i : priorityOrder(i.priority) = 3)
      \o SelectSeq(insights, LAMBDA i : priorityOrder(i.priority) = 2)
      \o SelectSeq(insights, LAMBDA i : priorityOrder(i.priority) = 1)

\* `timeoutErrors.length > errors.length * 0.3 ? 'high' : 'medium'`.  The
\* double product is exact wherever it is an integer for the list lengths
\* modelled (5 * 0.4 = 2, 5 * 0.8 = 4, 10 * 0.3 = 3), so the comparison is the
\* integer one.
TimeoutPriority(count, total) == IF 10 * count > 3 * total THEN "high" ELSE "medium"

\* mutant: the selector insight uses the timeout insight's 30% threshold
SelectorPriority_thirtyPercent(count, total) == IF 10 * count > 3 * total THEN "high" ELSE "medium"

\* `selectorErrors.length > errors.length * 0.4 ? 'high' : 'medium'`
SelectorPriority(count, total) == IF 10 * count > 4 * total THEN "high" ELSE "medium"

analyzeErrors(errs) ==
    LET timeoutErrors == SelectSeq(errs, IsTimeoutError)
        selectorErrors == SelectSeq(errs, IsSelectorError)
        assertionErrors == SelectSeq(errs, IsAssertionError)
        authErrors == SelectSeq(errs, IsAuthError)
        retriedTests == SelectSeq(errs, IsRetried)
        i1 == PushIf(<<>>, "Timeout Issues", timeoutErrors,
                     TimeoutPriority(Len(timeoutErrors), Len(errs)))
        i2 == PushIf(i1, "Element Location Issues", selectorErrors,
                     SelectorPriority(Len(selectorErrors), Len(errs)))
        i3 == PushIf(i2, "Assertion Failures", assertionErrors, "medium")
        i4 == PushIf(i3, "Authentication Issues", authErrors, "high")
        i5 == PushIf(i4, "Flaky Tests", retriedTests, "medium")
        i6 == ProjectInsights(i5, ProjectKeys(errs), errs)
    IN  SortByPriority(i6)

RECURSIVE SeqsUpTo(_, _)
SeqsUpTo(S, n) ==
    IF n = 0 THEN { <<>> }
    ELSE LET shorter == SeqsUpTo(S, n - 1) IN
         shorter \cup { Append(q, x) : q \in shorter, x \in S }

InitAnalyze ==
    /\ ClassifyIdle
    /\ StoreIdle
    /\ TestIdle
    /\ analyzeIn \in SeqsUpTo(SampleEntries, MaxRecords)
    /\ analyzeOut = [done |-> FALSE, insights |-> <<>>]
    /\ HistoryIdle
    /\ ReporterIdle
    /\ ErrorReporterIdle
    /\ CaptureIdle
    /\ SnapshotIdle
    /\ RetryIdle
    /\ ListenIdle /\ NetworkIdle
    /\ CallIdle

\* generateLatestAnalysis hands the entries of the latest file to analyzeErrors
Analyze ==
    /\ ~analyzeOut.done
    /\ analyzeOut' = [done |-> TRUE, insights |-> analyzeErrors(analyzeIn)]
    /\ UNCHANGED <<analyzeIn, classifyVars, storeVars, testVars, historyVars, reporterVars, errorReporterVars, captureVars, snapshotVars, retryVars, callVars, listenVars, networkVars>>

NextAnalyze == Analyze

SpecAnalyze == InitAnalyze /\ [][NextAnalyze]_vars

(***************************************************************************)
(* Claims about analyzeErrors (checked under SpecAnalyze).                 *)
(***************************************************************************)
\* the category categorizeError gives the error of an entry
CategoryOf(e) == categorizeError(ErrorOf(e.error.message, 0))

CountOf(category) == Len(SelectSeq(analyzeIn, LAMBDA e : CategoryOf(e) = category))

HasInsight(category) ==
    \E i \in DOMAIN analyzeOut.insights : analyzeOut.insights[i].category = category

AuthenticationFirst ==
    /\ analyzeOut.insights # <<>>
    /\ analyzeOut.insights[1].category = "Authentication Issues"
    /\ analyzeOut.insights[1].priority = "high"

\* C10 as stated: for every list of failure records that holds at least one
\* authentication failure, the first insight returned is the authentication
\* insight, with priority high; for 2 selector-not-found, 2 network-timeout
\* and 1 authentication failure there is an insight for each of the three
\* categories and the authentication insight comes first.
C10_AuthenticationFirst ==
    analyzeOut.done =>
        /\ CountOf("AUTHENTICATION_FAILURE") > 0 => AuthenticationFirst
        /\ (/\ Len(analyzeIn) = 5
            /\ CountOf("SELECTOR_NOT_FOUND") = 2
            /\ CountOf("NETWORK_TIMEOUT") = 2
            /\ CountOf("AUTHENTICATION_FAILURE") = 1)
              => /\ HasInsight("Element Location Issues")
                 /\ HasInsight("Timeout Issues")
                 /\ HasInsight("Authentication Issues")
                 /\ AuthenticationFirst

\* failures whose message holds the word timeout, in any letter case
TimeoutFailures ==
    Cardinality({ i \in DOMAIN analyzeIn : Has(analyzeIn[i].error.message, "timeout") })

\* failures whose message holds locator, selector or not found
SelectorFailures ==
    Cardinality({ i \in DOMAIN analyzeIn : MatchesSelectorRule(analyzeIn[i].error.message) })

InsightsOf(category) ==
    { i \in DOMAIN analyzeOut.insights : analyzeOut.insights[i].category = category }

PriorityOf(category) == analyzeOut.insights[CHOOSE i \in InsightsOf(category) : TRUE].priority

ProjectsOf == { analyzeIn[i].projectName : i \in DOMAIN analyzeIn }

ProjectCount(p) == Cardinality({ i \in DOMAIN analyzeIn : analyzeIn[i].projectName = p })

\* one project holds more than 80% of the failures and there is more than one project
ProjectSkew ==
    /\ Cardinality(ProjectsOf) > 1
    /\ \E p \in ProjectsOf : 10 * ProjectCount(p) > 8 * Len(analyzeIn)

\* C11: analyzeErrors assigns priorities by the fixed table.  The
\* authentication insight is high; the timeout insight is high iff timeout
\* failures are more than 30% of all failures, else medium; the selector
\* insight is high iff selector failures are more than 40%, else medium; the
\* flaky-tests insight is medium; a project-specific insight, medium, is
\* emitted iff one project holds more than 80% of the failures and there is
\* more than one project, so never more than one.
C11_PriorityTable ==
    analyzeOut.done =>
        LET n == Len(analyzeIn)
            t == TimeoutFailures
            s == SelectorFailures
        IN  /\ InsightsOf("Authentication Issues") # {}
                => PriorityOf("Authentication Issues") = "high"
            /\ InsightsOf("Timeout Issues") # {}
                => (PriorityOf("Timeout Issues") = "high" <=> 10 * t > 3 * n)
                   /\ PriorityOf("Timeout Issues") \in {"high", "medium"}
            /\ InsightsOf("Element Location Issues") # {}
                => (PriorityOf("Element Location Issues") = "high" <=> 10 * s > 4 * n)
                   /\ PriorityOf("Element Location Issues") \in {"high", "medium"}
            /\ InsightsOf("Flaky Tests") # {} => PriorityOf("Flaky Tests") = "medium"
            /\ Cardinality(InsightsOf("Project-Specific Issues")) <= 1
            /\ InsightsOf("Project-Specific Issues") # {} <=> ProjectSkew
            /\ InsightsOf("Project-Specific Issues") # {}
                => PriorityOf("Project-Specific Issues") = "medium"

\* five of six failures are in one project; the timeout insight is medium
\* (1 of 6), the selector insight high (3 of 6), and there are authentication
\* and flaky-tests insights
C11_Witness ==
    /\ analyzeOut.done
    /\ Len(analyzeIn) = 6
    /\ InsightsOf("Project-Specific Issues") # {}
    /\ InsightsOf("Timeout Issues") # {} /\ PriorityOf("Timeout Issues") = "medium"
    /\ InsightsOf("Element Location Issues") # {}
    /\ PriorityOf("Element Location Issues") = "high"
    /\ InsightsOf("Authentication Issues") # {}
    /\ InsightsOf("Flaky Tests") # {}

(***************************************************************************)
(* SpecHistory: FailureSummary.analyzeHistoricalData applied to every list *)
(* of at most MaxRuns run summaries.  A summary is the list of the test    *)
(* names of its errors; test names are numbered.                           *)
(***************************************************************************)
MaxRuns == 5         \* run summaries handed to analyzeHistoricalData
FlakyCap == 10       \* flakyTests is cut by `.slice(0, 10)`

\* the test names of the errors of one run: one failing test, a test that
\* failed twice (a retry) next to another, two tests, FlakyCap + 1 tests, and
\* a test that fails in no other run
SampleRuns ==
    { << 1 >>, << 1, 1, 2 >>, << 2, 3 >>,
      [ i \in 1..(FlakyCap + 1) |-> i ],
      << FlakyCap + 2 >> }

\* the elements of a list in the order of their first occurrence, as a Set
\* or a Map built from the list iterates them
RECURSIVE InsertionOrder(_)
InsertionOrder(seq) ==
    IF seq = <<>> THEN <<>>
    ELSE LET init == InsertionOrder(SubSeq(seq, 1, Len(seq) - 1))
             x == seq[Len(seq)]
         IN  IF \E i \in DOMAIN init : init[i] = x THEN init ELSE Append(init, x)

RECURSIVE flatMap(_)
flatMap(summaries) ==
    IF summaries = <<>> THEN <<>> ELSE Head(summaries) \o flatMap(Tail(summaries))

\* testOccurrences.get(testName): the runs whose Set of test names holds it
Occurrences(summaries, testName) ==
    Cardinality({ r \in DOMAIN summaries :
                    \E i \in DOMAIN summaries[r] : summaries[r][i] = testName })

\* Array.prototype.slice(0, n)
slice(seq, n) == IF Len(seq) > n THEN SubSeq(seq, 1, n) ELSE seq

\* mutant: the flaky range includes the 80% boundary
IsFlakyCount_inclusive(count, totalRuns) == count > 1 /\ 10 * count <= 8 * totalRuns

\* `count > 1 && count < totalRuns * 0.8`; the double product equals the
\* exact one wherever that is an integer, so the comparison is the integer one
IsFlakyCount(count, totalRuns) == count > 1 /\ 10 * count < 8 * totalRuns

\* `count >= totalRuns * 0.8`
IsConsistentCount(count, totalRuns) == 10 * count >= 8 * totalRuns

analyzeHistoricalData(summaries) ==
    LET totalRuns == Len(summaries)
        testNames == InsertionOrder(flatMap(summaries))
    IN  [ done |-> TRUE,
          totalRuns |-> totalRuns,
          flakyTests |->
              slice(SelectSeq(testNames,
                        LAMBDA t : IsFlakyCount(Occurrences(summaries, t), totalRuns)),
                    FlakyCap),
          consistentFailures |->
              SelectSeq(testNames,
                  LAMBDA t : IsConsistentCount(Occurrences(summaries, t), totalRuns)) ]

InitHistory ==
    /\ ClassifyIdle
    /\ StoreIdle
    /\ TestIdle
    /\ AnalyzeIdle
    /\ ReporterIdle
    /\ ErrorReporterIdle
    /\ CaptureIdle
    /\ SnapshotIdle
    /\ RetryIdle
    /\ ListenIdle /\ NetworkIdle
    /\ CallIdle
    /\ historyIn \in SeqsUpTo(SampleRuns, MaxRuns)
    /\ historyOut = NoAnalysis

\* generateHistoricalAnalysis hands the parsed run dumps to analyzeHistoricalData
AnalyzeHistory ==
    /\ ~historyOut.done
    /\ historyOut' = analyzeHistoricalData(historyIn)
    /\ UNCHANGED <<historyIn, classifyVars, storeVars, testVars, analyzeVars, reporterVars, errorReporterVars, captureVars, snapshotVars, retryVars, callVars, listenVars, networkVars>>

NextHistory == AnalyzeHistory

SpecHistory == InitHistory /\ [][NextHistory]_vars

(***************************************************************************)
(* Claims about analyzeHistoricalData (checked under SpecHistory).         *)
(***************************************************************************)
Range(seq) == { seq[i] : i \in DOMAIN seq }

\* every test name that fails in some analyzed run
FailedNames == UNION { Range(historyIn[r]) : r \in DOMAIN historyIn }

\* c: the number of analyzed runs in which the name appears as failing
RunsFailed(t) == Cardinality({ r \in DOMAIN historyIn : t \in Range(historyIn[r]) })

\* C12: flakyTests and consistentFailures are disjoint, and a test name that
\* failed in exactly 80% of the analyzed runs is in consistentFailures and not
\* in flakyTests.
C12_FlakyConsistentDisjoint ==
    historyOut.done =>
        /\ Range(historyOut.flakyTests) \cap Range(historyOut.consistentFailures) = {}
        /\ \A t \in FailedNames :
              10 * RunsFailed(t) = 8 * Len(historyIn)
                  => /\ t \in Range(historyOut.consistentFailures)
                     /\ t \notin Range(historyOut.flakyTests)

\* five runs analyzed: one test failed in exactly four of them and is
\* consistent, another failed in two and is flaky
C12_Witness ==
    /\ historyOut.done
    /\ Len(historyIn) = 5
    /\ \E t \in FailedNames :
          RunsFailed(t) = 4 /\ t \in Range(historyOut.consistentFailures)
    /\ \E t \in FailedNames :
          RunsFailed(t) = 2 /\ t \in Range(historyOut.flakyTests)

\* C13 as stated: with c the number of analyzed runs in which a name fails,
\* out of N, the name is in flakyTests iff 1 < c < 0.8 * N and in
\* consistentFailures iff c >= 0.8 * N; no name that meets a condition is left
\* out of its list, however many names meet it.
C13_ClassifiedByCount ==
    historyOut.done =>
        \A t \in FailedNames :
            /\ t \in Range(historyOut.flakyTests)
                  <=> (RunsFailed(t) > 1 /\ 10 * RunsFailed(t) < 8 * Len(historyIn))
            /\ t \in Range(historyOut.consistentFailures)
                  <=> 10 * RunsFailed(t) >= 8 * Len(historyIn)

(***************************************************************************)
(* SpecReporter: ErrorOnlyReporter over a sequence of test runs.  Each run *)
(* has its own reporter instance; the output directory is shared.  Runs    *)
(* are sequential, so the timestamp in a dump's name is the run's number.  *)
(***************************************************************************)
MaxReporterRuns == 3   \* test runs
MaxTestsPerRun == 2    \* tests reported in one run

\* result.status, and whether result.error is set
TestResults ==
    { [status |-> st, error |-> e] :
        st \in {"passed", "skipped", "failed", "timedOut", "interrupted"}, e \in BOOLEAN }

\* which writeFileSync call of writeErrorLogs raises, if any
WriteFaults == { "none", "dumpJson", "dumpText", "latestJson", "latestText" }

\* Playwright constructs the reporter and calls onBegin
OnBegin ==
    /\ ~reporter.running
    /\ reporter.run < MaxReporterRuns
    /\ reporter' = [NewReporter(reporter.run + 1) EXCEPT !.running = TRUE]
    /\ UNCHANGED <<dumps, latestErrors, classifyVars, storeVars, testVars, analyzeVars, historyVars, errorReporterVars, captureVars, snapshotVars, retryVars, callVars, listenVars, networkVars>>

\* onTestEnd with captureError
OnTestEnd(result) ==
    /\ reporter.running
    /\ reporter.totalTests < MaxTestsPerRun
    /\ LET failed == result.status \in {"failed", "timedOut"} IN
       reporter' = [reporter EXCEPT
          !.totalTests = @ + 1,
          !.totalPassed = IF result.status = "passed" THEN @ + 1 ELSE @,
          !.totalSkipped = IF result.status = "skipped" THEN @ + 1 ELSE @,
          !.totalFailed = IF failed THEN @ + 1 ELSE @,
          !.errors = IF failed /\ result.error THEN Append(@, reporter.totalTests + 1) ELSE @]
    /\ UNCHANGED <<dumps, latestErrors, classifyVars, storeVars, testVars, analyzeVars, historyVars, errorReporterVars, captureVars, snapshotVars, retryVars, callVars, listenVars, networkVars>>

generateSummary ==
    [ run |-> reporter.run, totalTests |-> reporter.totalTests,
      totalFailed |-> reporter.totalFailed, errors |-> reporter.errors ]

\* onEnd: nothing is written when no test failed; otherwise writeErrorLogs
\* writes the run's dump and then overwrites the latest files, stopping at the
\* first writeFileSync that raises
OnEnd(fault) ==
    /\ reporter.running
    /\ reporter' = [reporter EXCEPT !.running = FALSE]
    /\ IF reporter.totalFailed = 0
       THEN UNCHANGED <<dumps, latestErrors>>
       ELSE /\ dumps' = IF fault = "dumpJson" THEN dumps ELSE Append(dumps, generateSummary)
            /\ latestErrors' = IF fault \in {"dumpJson", "dumpText", "latestJson"}
                               THEN latestErrors ELSE generateSummary
    /\ UNCHANGED <<classifyVars, storeVars, testVars, analyzeVars, historyVars, errorReporterVars, captureVars, snapshotVars, retryVars, callVars, listenVars, networkVars>>

InitReporter ==
    /\ ClassifyIdle
    /\ StoreIdle
    /\ TestIdle
    /\ ToolsIdle

NextReporter ==
    \/ OnBegin
    \/ \E result \in TestResults : OnTestEnd(result)
    \/ \E fault \in WriteFaults : OnEnd(fault)

SpecReporter == InitReporter /\ [][NextReporter]_vars

(***************************************************************************)
(* Claims about the reporter's files (checked under SpecReporter).         *)
(***************************************************************************)
\* the runs that have ended
CompletedRuns == 1..(IF reporter.running THEN reporter.run - 1 ELSE reporter.run)

\* C14 as stated: after any sequence of completed test runs,
\* latest-errors.json holds the summary of the most recent completed run, and
\* every completed run has produced its own errors-<timestamp> dump.
C14_LatestIsLastRun ==
    (~reporter.running /\ reporter.run > 0) =>
        /\ latestErrors.run = reporter.run
        /\ \A r \in CompletedRuns : \E i \in DOMAIN dumps : dumps[i].run = r

\* C28: after any sequence of onTestEnd events with any result status the
\* counters are consistent: passed + failed + skipped is the number of tests,
\* and there is one captured error entry per failed test
C28_SummaryConsistent ==
    /\ reporter.totalPassed + reporter.totalFailed + reporter.totalSkipped = reporter.totalTests
    /\ Len(reporter.errors) = reporter.totalFailed

(***************************************************************************)
(* SpecErrorReporter: ErrorReporter.reportError, updateErrorReport,        *)
(* getReport, getSessionErrors and clearSession.  The Map and the session  *)
(* list hold the same report objects, so both are kept as references into  *)
(* reportObjects.  Report ids (time plus a random suffix) are taken to be  *)
(* fresh: a report's id is the number of its object.                       *)
(***************************************************************************)
MaxReporterCalls == 4   \* ErrorReporter methods called in one session

\* the recovery argument of reportError: absent, or some of the fields
RecoveryInputs == { [attempted |-> FALSE, given |-> FALSE], [attempted |-> TRUE, given |-> TRUE] }

\* the recovery argument of updateErrorReport
Recoveries ==
    { [attempted |-> TRUE, strategies |-> <<"retry">>, successful |-> TRUE, attempts |-> 1],
      [attempted |-> TRUE, strategies |-> <<"retry", "reload">>, successful |-> FALSE,
       attempts |-> 2] }

\* reportError: `{ attempted: false, strategies: [], successful: false,
\* attempts: 0, ...recovery }`
InitialRecovery(recovery) ==
    [ attempted |-> IF recovery.given THEN recovery.attempted ELSE FALSE,
      strategies |-> <<>>, successful |-> FALSE, attempts |-> 0 ]

ErrorReport(id, testName, severity, recovery) ==
    [ id |-> id, sessionId |-> "session",
      testInfo |-> [testName |-> testName, status |-> "failed"],
      error |-> [severity |-> severity],
      recovery |-> InitialRecovery(recovery),
      metadata |-> <<>> ]

\* the key set of a file system directory or heap after one more entry
Put(f, k, v) == [ x \in (DOMAIN f) \cup {k} |-> IF x = k THEN v ELSE f[x] ]

\* saveReport: writeFileSync of the report, a failure is logged only
saveReport(report, saveFails) ==
    IF saveFails THEN reportFiles ELSE Put(reportFiles, report.id, report)

\* mutant: the update also rewrites the test status of the report
SetRecovery_resetsReport(report, recovery) ==
    [report EXCEPT !.recovery = recovery, !.testInfo.status = "passed"]

\* `report.recovery = recovery`
SetRecovery(report, recovery) == [report EXCEPT !.recovery = recovery]

\* reportError with the default configuration (enabled); notifications and
\* the real-time analytics update only log
ReportError(testName, severity, recovery, saveFails) ==
    /\ lastCall.n < MaxReporterCalls
    /\ LET reportId == Len(reportObjects) + 1
           report == ErrorReport(reportId, testName, severity, recovery)
       IN  /\ reportObjects' = Append(reportObjects, report)
           /\ reportIndex' = reportIndex \cup {reportId}
           /\ sessionErrors' = Append(sessionErrors, reportId)
           /\ reportFiles' = saveReport(report, saveFails)
           /\ lastCall' = [n |-> lastCall.n + 1, op |-> "reportError", id |-> reportId,
                           recovery |-> <<>>]
    /\ UNCHANGED <<classifyVars, storeVars, testVars, analyzeVars, historyVars, reporterVars, captureVars, snapshotVars, retryVars, callVars, listenVars, networkVars>>

\* updateErrorReport(reportId, recovery)
UpdateErrorReport(reportId, recovery, saveFails) ==
    /\ lastCall.n < MaxReporterCalls
    /\ IF reportId \in reportIndex
       THEN LET report == SetRecovery(reportObjects[reportId], recovery) IN
            /\ reportObjects' = [reportObjects EXCEPT ![reportId] = report]
            /\ reportFiles' = saveReport(report, saveFails)
       ELSE UNCHANGED <<reportObjects, reportFiles>>
    /\ lastCall' = [n |-> lastCall.n + 1, op |-> "updateErrorReport", id |-> reportId,
                    recovery |-> recovery]
    /\ UNCHANGED <<reportIndex, sessionErrors>>
    /\ UNCHANGED <<classifyVars, storeVars, testVars, analyzeVars, historyVars, reporterVars, captureVars, snapshotVars, retryVars, callVars, listenVars, networkVars>>

\* clearSession
ClearSession ==
    /\ lastCall.n < MaxReporterCalls
    /\ sessionErrors' = <<>>
    /\ reportIndex' = {}
    /\ lastCall' = [n |-> lastCall.n + 1, op |-> "clearSession", id |-> 0, recovery |-> <<>>]
    /\ UNCHANGED <<reportObjects, reportFiles>>
    /\ UNCHANGED <<classifyVars, storeVars, testVars, analyzeVars, historyVars, reporterVars, captureVars, snapshotVars, retryVars, callVars, listenVars, networkVars>>

\* getReport(reportId): the stored object, or undefined (the empty tuple)
getReport(objects, index, reportId) == IF reportId \in index THEN objects[reportId] ELSE <<>>

\* getSessionErrors(): a new array of the same objects
getSessionErrors(objects, session) == [ i \in DOMAIN session |-> objects[session[i]] ]

InitErrorReporter ==
    /\ ClassifyIdle
    /\ StoreIdle
    /\ TestIdle
    /\ ToolsIdle

NextErrorReporter ==
    \/ \E testName \in {"checkout", "login"} : \E severity \in {"HIGH", "LOW"} :
       \E recovery \in RecoveryInputs : \E saveFails \in BOOLEAN :
          ReportError(testName, severity, recovery, saveFails)
    \/ \E reportId \in 1..(Len(reportObjects) + 1) : \E recovery \in Recoveries :
       \E saveFails \in BOOLEAN :
          UpdateErrorReport(reportId, recovery, saveFails)
    \/ ClearSession

SpecErrorReporter == InitErrorReporter /\ [][NextErrorReporter]_vars

(***************************************************************************)
(* Claims about ErrorReporter (checked under SpecErrorReporter).           *)
(***************************************************************************)
\* the step is a call of updateErrorReport
UpdateCalled == lastCall'.n # lastCall.n /\ lastCall'.op = "updateErrorReport"

\* C15: updateErrorReport(id, r) on a stored report sets its recovery to r and
\* leaves every other field of it, and every other report, unchanged; the
\* updated report is the one getReport(id) returns and getSessionErrors()
\* lists; with an id that is not stored the call changes nothing.
C15_UpdateOnlyRecovery ==
    [][ UpdateCalled =>
          LET id == lastCall'.id
              r == lastCall'.recovery
          IN  IF id \in reportIndex
              THEN /\ reportObjects'[id] = [reportObjects[id] EXCEPT !.recovery = r]
                   /\ \A o \in DOMAIN reportObjects : o # id => reportObjects'[o] = reportObjects[o]
                   /\ DOMAIN reportObjects' = DOMAIN reportObjects
                   /\ getReport(reportObjects', reportIndex', id).recovery = r
                   /\ \E i \in DOMAIN sessionErrors' :
                        /\ getSessionErrors(reportObjects', sessionErrors')[i].id = id
                        /\ getSessionErrors(reportObjects', sessionErrors')[i]
                              = getReport(reportObjects', reportIndex', id)
                   /\ Len(getSessionErrors(reportObjects', sessionErrors')) = Len(sessionErrors)
              ELSE UNCHANGED <<reportObjects, reportIndex, sessionErrors, reportFiles>>
      ]_vars

\* two reports are stored and the first has been updated: its recovery is the
\* one given, the second still has the recovery it was created with
C15_Witness ==
    /\ lastCall.op = "updateErrorReport"
    /\ lastCall.id = 1
    /\ reportIndex = {1, 2}
    /\ reportObjects[1].recovery = lastCall.recovery
    /\ reportObjects[1].testInfo.testName = "login"
    /\ reportObjects[2].recovery.attempts = 0

(***************************************************************************)
(* SpecCapture: ContextCapture.captureFullContext for every set of capture *)
(* steps whose page call raises.                                           *)
(***************************************************************************)
\* the capture steps of captureFullContext, in the order they run
CaptureSteps ==
    << "title", "browserInfo", "pageState", "performance", "localStorage",
       "sessionStorage", "cookies", "screenshot", "domSnapshot", "accessibility",
       "saveContext" >>

StepNames == { CaptureSteps[i] : i \in DOMAIN CaptureSteps }

\* the steps whose own try/catch (or .catch) turns a failure into a default:
\* page.context().cookies() is awaited bare, and captureScreenshot logs the
\* error and throws it again
GuardedSteps ==
    { "title", "browserInfo", "pageState", "performance", "localStorage",
      "sessionStorage", "domSnapshot", "accessibility", "saveContext" }

\* whether the step runs at all
StepRuns(step, in) ==
    CASE step = "screenshot" -> in.includeScreenshot
      [] step = "domSnapshot" -> in.includeDOM
      [] OTHER -> TRUE

\* the value a capture step leaves in its field
StepValue(step, in) ==
    IF ~StepRuns(step, in) THEN "undefined"
    ELSE IF step \in in.failing THEN "default"
    ELSE "captured"

\* the first step that runs, fails and is not guarded: its error reaches the
\* catch block of captureFullContext, which logs it and throws it again
Escapes(in) ==
    { i \in DOMAIN CaptureSteps :
        /\ StepRuns(CaptureSteps[i], in)
        /\ CaptureSteps[i] \in in.failing
        /\ CaptureSteps[i] \notin GuardedSteps }

captureFullContext(in) ==
    IF Escapes(in) # {}
    THEN [ done |-> TRUE, threw |-> TRUE, context |-> <<>>, saved |-> FALSE ]
    ELSE [ done |-> TRUE, threw |-> FALSE,
           context |-> [ step \in StepNames \ {"saveContext"} |-> StepValue(step, in) ],
           saved |-> "saveContext" \notin in.failing ]

InitCapture ==
    /\ ClassifyIdle
    /\ StoreIdle
    /\ TestIdle
    /\ AnalyzeIdle
    /\ HistoryIdle
    /\ ReporterIdle
    /\ ErrorReporterIdle
    /\ captureIn \in [ failing : SUBSET StepNames, includeScreenshot : BOOLEAN,
                       includeDOM : BOOLEAN ]
    /\ captureOut = NoCapture
    /\ SnapshotIdle
    /\ RetryIdle
    /\ ListenIdle /\ NetworkIdle
    /\ CallIdle

CaptureFullContext ==
    /\ ~captureOut.done
    /\ captureOut' = captureFullContext(captureIn)
    /\ UNCHANGED <<captureIn, classifyVars, storeVars, testVars, analyzeVars, historyVars, reporterVars, errorReporterVars, snapshotVars, retryVars, callVars, listenVars, networkVars>>

NextCapture == CaptureFullContext

SpecCapture == InitCapture /\ [][NextCapture]_vars

(***************************************************************************)
(* Claims about captureFullContext (checked under SpecCapture).            *)
(***************************************************************************)
\* C16 as stated: captureFullContext never throws because a sub-capture
\* failed; the field of a failing step is omitted or defaulted and the call
\* still returns a snapshot.
C16_CaptureBestEffort ==
    captureOut.done =>
        /\ ~captureOut.threw
        /\ \A step \in StepNames \ {"saveContext"} :
              (step \in captureIn.failing /\ StepRuns(step, captureIn))
                  => captureOut.context[step] \in {"default", "undefined"}

(***************************************************************************)
(* SpecSnapshot: ErrorHandler.getErrors and its callers.  this.errors is   *)
(* an array of references to TestError objects and getErrors copies the    *)
(* array, not the objects, so the objects are kept in errorObjects and the *)
(* two arrays hold positions in it.  `errors` is the buffer as the store's *)
(* own methods read it.                                                    *)
(***************************************************************************)
MaxSnapshotSteps == 4

SnapshotTypes == {"NETWORK_TIMEOUT", "ASSERTION_FAILURE"}

SessionIds == {"1700000000000-abc", "1700000000001-xyz"}

\* the records an array of references denotes
Deref(heap, refs) == [ i \in DOMAIN refs |-> heap[refs[i]] ]

SnapshotStep(by, op) ==
    [ n |-> snapshotOp.n + 1, by |-> by, op |-> op,
      taken |-> snapshotOp.taken \/ op = "getErrors" ]

\* an awaited handleError call: the record is built, pushed and written
SnapshotHandleError(type) ==
    /\ snapshotOp.n < MaxSnapshotSteps
    /\ LET ref == Len(errorObjects) + 1
           testError ==
              [ type |-> type,
                message |-> Message({}, FALSE),
                context |-> [ timestamp |-> ref, testName |-> "caller",
                              screenshotPath |-> captureScreenshot(TRUE) ],
                recoveryAttempted |-> FALSE,
                recoverySuccessful |-> FALSE ]
           written == writeErrorToLog(testError, "ok")
       IN  /\ errorObjects' = Append(errorObjects, testError)
           /\ errorRefs' = Append(errorRefs, ref)
           /\ errors' = Deref(errorObjects', errorRefs')
           /\ logFile' = written.log
           /\ latestFile' = written.latest
    /\ snapshotOp' = SnapshotStep("store", "handleError")
    /\ UNCHANGED <<priorLen, calls, microtasks, sessionId, snapshotRefs, classifyVars,
                   testVars, analyzeVars, historyVars, reporterVars,
                   errorReporterVars, captureVars, retryVars, callVars, listenVars, networkVars>>

\* a caller calls getErrors and keeps the array it returns
GetErrors ==
    /\ snapshotOp.n < MaxSnapshotSteps
    /\ snapshotRefs' = getErrors(errorRefs)
    /\ snapshotOp' = SnapshotStep("caller", "getErrors")
    /\ UNCHANGED <<storeVars, errorObjects, errorRefs, sessionId, classifyVars,
                   testVars, analyzeVars, historyVars, reporterVars,
                   errorReporterVars, captureVars, retryVars, callVars, listenVars, networkVars>>

\* the caller pushes a record of its own onto the returned array
CallerPush(type) ==
    /\ snapshotOp.n < MaxSnapshotSteps
    /\ snapshotOp.taken
    /\ errorObjects' = Append(errorObjects, [NoTestError EXCEPT !.type = type])
    /\ snapshotRefs' = Append(snapshotRefs, Len(errorObjects) + 1)
    /\ snapshotOp' = SnapshotStep("caller", "push")
    /\ errors' = Deref(errorObjects', errorRefs)
    /\ UNCHANGED <<logFile, latestFile, priorLen, calls, microtasks, errorRefs,
                   sessionId, classifyVars, testVars, analyzeVars, historyVars,
                   reporterVars, errorReporterVars, captureVars, retryVars, callVars, listenVars, networkVars>>

\* the caller pops the last element of the returned array
CallerPop ==
    /\ snapshotOp.n < MaxSnapshotSteps
    /\ snapshotOp.taken
    /\ snapshotRefs # <<>>
    /\ snapshotRefs' = SubSeq(snapshotRefs, 1, Len(snapshotRefs) - 1)
    /\ snapshotOp' = SnapshotStep("caller", "pop")
    /\ UNCHANGED <<storeVars, errorObjects, errorRefs, sessionId, classifyVars,
                   testVars, analyzeVars, historyVars, reporterVars,
                   errorReporterVars, captureVars, retryVars, callVars, listenVars, networkVars>>

\* the caller assigns the type field of a record of the returned array
CallerModifyRecord(i, type) ==
    /\ snapshotOp.n < MaxSnapshotSteps
    /\ snapshotOp.taken
    /\ i \in DOMAIN snapshotRefs
    /\ errorObjects[snapshotRefs[i]].type # type
    /\ errorObjects' = [errorObjects EXCEPT ![snapshotRefs[i]].type = type]
    /\ errors' = Deref(errorObjects', errorRefs)
    /\ snapshotOp' = SnapshotStep("caller", "modify")
    /\ UNCHANGED <<logFile, latestFile, priorLen, calls, microtasks, errorRefs,
                   snapshotRefs, sessionId, classifyVars, testVars, analyzeVars,
                   historyVars, reporterVars, errorReporterVars, captureVars, retryVars, callVars, listenVars, networkVars>>

\* clearErrors is called
ClearErrors ==
    /\ snapshotOp.n < MaxSnapshotSteps
    /\ errorRefs' = clearErrors(errorRefs)
    /\ errors' = Deref(errorObjects, errorRefs')
    /\ snapshotOp' = SnapshotStep("store", "clearErrors")
    /\ UNCHANGED <<logFile, latestFile, priorLen, calls, microtasks, errorObjects,
                   snapshotRefs, sessionId, classifyVars, testVars, analyzeVars,
                   historyVars, reporterVars, errorReporterVars, captureVars, retryVars, callVars, listenVars, networkVars>>

InitSnapshot ==
    /\ ClassifyIdle
    /\ StoreIdle
    /\ TestIdle
    /\ AnalyzeIdle /\ HistoryIdle /\ ReporterIdle /\ ErrorReporterIdle /\ CaptureIdle
    /\ errorObjects = <<>>
    /\ sessionId \in SessionIds
    /\ errorRefs = <<>>
    /\ snapshotRefs = <<>>
    /\ snapshotOp = NoOp
    /\ RetryIdle
    /\ ListenIdle /\ NetworkIdle
    /\ CallIdle

NextSnapshot ==
    \/ \E type \in SnapshotTypes : SnapshotHandleError(type)
    \/ GetErrors
    \/ \E type \in SnapshotTypes : CallerPush(type)
    \/ CallerPop
    \/ \E i \in 1..MaxSnapshotSteps, type \in SnapshotTypes : CallerModifyRecord(i, type)
    \/ ClearErrors

SpecSnapshot == InitSnapshot /\ [][NextSnapshot]_vars

\* what a caller reads in the array getErrors returned to it
SnapshotView == Deref(errorObjects, snapshotRefs)

\* C17: nothing a caller does with the array getErrors returned changes what
\* later getErrors, generateErrorReport or getDebuggingSuggestions calls
\* return, and later handleError or clearErrors calls do not change what the
\* caller reads in an array already returned
C17_SnapshotIsolated ==
    [][ /\ (snapshotOp'.by = "caller" /\ snapshotOp'.op # "getErrors") =>
             /\ Deref(errorObjects', getErrors(errorRefs'))
                  = Deref(errorObjects, getErrors(errorRefs))
             /\ generateErrorReport(errors') = generateErrorReport(errors)
             /\ getDebuggingSuggestions(errors') = getDebuggingSuggestions(errors)
        /\ snapshotOp'.by = "store" =>
             Deref(errorObjects', snapshotRefs') = SnapshotView ]_vars

\* C18: a clearErrors call empties the in-memory buffer and leaves the append
\* log, latest-handler-errors.json and the session id exactly as they were
C18_ClearErrorsFrame ==
    [][ (snapshotOp'.op = "clearErrors" /\ snapshotOp'.n # snapshotOp.n) =>
          /\ errors' = <<>>
          /\ errorRefs' = <<>>
          /\ logFile' = logFile
          /\ latestFile' = latestFile
          /\ sessionId' = sessionId ]_vars

\* clearErrors has just emptied a buffer whose records are still in both files
C18_Witness ==
    /\ snapshotOp.op = "clearErrors"
    /\ errors = <<>>
    /\ logFile # <<>>
    /\ latestFile = logFile
    /\ \A i \in DOMAIN logFile : logFile[i].sessionId = sessionId

(***************************************************************************)
(* SpecRetry: one call of BasePage.retryOperation(operation, operationName,*)
(* maxRetries) by a page method, with the handleError call of its catch    *)
(* block running on the store.  The operations the page classes pass are   *)
(* Playwright calls and `throw new Error(...)`, so what they raise is an   *)
(* Error.                                                                  *)
(***************************************************************************)
RetryTask == 1

\* the optional argument maxRetries: left out, or a number
MaxRetriesInputs ==
    { [given |-> FALSE, value |-> 0] } \cup { [given |-> TRUE, value |-> n] : n \in {0, 1, 3} }

RetryOperationNames == {"goto", "safe locator operation"}

\* mutant: the catch block loops while attempts remain
ShouldRetry_loop(attempts, maxRetries) ==
    maxRetries.given /\ attempts <= maxRetries.value

\* whether the catch block starts another attempt: it has no loop and never
\* reads maxRetries
ShouldRetry(attempts, maxRetries) == FALSE

\* try { return await operation() }: the operation is invoked; when it
\* raises, the catch block logs and calls handleError up to its first await
RetryInvoke(succeeds, error) ==
    /\ retryOp.pc = "invoke"
    /\ IF succeeds
       THEN /\ retryOp' = [retryOp EXCEPT !.pc = "returned", !.attempts = @ + 1]
            /\ UNCHANGED <<calls, microtasks>>
       ELSE /\ retryOp' = [retryOp EXCEPT !.pc = "awaiting", !.attempts = @ + 1,
                            !.lastError = error, !.call = Len(calls) + 1]
            /\ IssueHandleError(RetryTask, error, retryOp.operationName)
    /\ UNCHANGED <<errors, logFile, latestFile, priorLen, classifyVars, testVars,
                   analyzeVars, historyVars, reporterVars, errorReporterVars,
                   captureVars, snapshotVars, callVars, listenVars, networkVars>>

\* `await handleError(...)` returns: a rejection leaves the catch block as it
\* is; otherwise the new Error is thrown
RetryResumes ==
    /\ retryOp.pc = "awaiting"
    /\ Settled(retryOp.call)
    /\ retryOp' =
         IF ~Resolved(retryOp.call)
         THEN [retryOp EXCEPT !.pc = "thrown", !.thrown = TypeErrorValue]
         ELSE IF ShouldRetry(retryOp.attempts, retryOp.maxRetries)
         THEN [retryOp EXCEPT !.pc = "invoke"]
         ELSE [retryOp EXCEPT !.pc = "thrown",
                            !.thrown = WrappedError(retryOp.operationName, retryOp.lastError)]
    /\ UNCHANGED <<classifyVars, storeVars, testVars, analyzeVars, historyVars,
                   reporterVars, errorReporterVars, captureVars, snapshotVars, callVars, listenVars, networkVars>>

InitRetry ==
    /\ ClassifyIdle
    /\ StoreIdle
    /\ TestIdle
    /\ AnalyzeIdle /\ HistoryIdle /\ ReporterIdle /\ ErrorReporterIdle /\ CaptureIdle
    /\ SnapshotIdle
    /\ CallIdle
    /\ ListenIdle /\ NetworkIdle
    /\ \E operationName \in RetryOperationNames, maxRetries \in MaxRetriesInputs :
         retryOp = [NoRetry EXCEPT !.pc = "invoke", !.operationName = operationName,
                                 !.maxRetries = maxRetries]

NextRetry ==
    \/ \E succeeds \in BOOLEAN : \E error \in PageErrors(1) : RetryInvoke(succeeds, error)
    \/ ResumeAfterContext
    \/ \E c \in DOMAIN calls : \E fault \in Faults : ScreenshotSettles(c, fault)
    \/ RetryResumes

SpecRetry == InitRetry /\ [][NextRetry]_vars

MaxBuffer == 3

\* the buffers of up to MaxBuffer records; only the type of a record is read
SuggestBuffers ==
    { [ i \in DOMAIN types |-> [NoTestError EXCEPT !.type = types[i]] ] :
        types \in SeqsUpTo(ErrorType, MaxBuffer) }

InitSuggest ==
    /\ ClassifyIdle
    /\ StoreIdle
    /\ TestIdle
    /\ AnalyzeIdle /\ HistoryIdle /\ ReporterIdle /\ ErrorReporterIdle /\ CaptureIdle
    /\ SnapshotIdle
    /\ RetryIdle
    /\ ListenIdle /\ NetworkIdle
    /\ \E buffer \in SuggestBuffers :
         callIn = [fn |-> "getDebuggingSuggestions", buffer |-> buffer]
    /\ callOut = NoResult

GetDebuggingSuggestions ==
    /\ callIn.fn = "getDebuggingSuggestions"
    /\ ~callOut.done
    /\ callOut' = [done |-> TRUE, value |-> getDebuggingSuggestions(callIn.buffer)]
    /\ UNCHANGED <<callIn, classifyVars, storeVars, testVars, analyzeVars, historyVars,
                   reporterVars, errorReporterVars, captureVars, snapshotVars, retryVars, listenVars, networkVars>>

NextSuggest == GetDebuggingSuggestions

SpecSuggest == InitSuggest /\ [][NextSuggest]_vars

\* the categories each rule of the claim is about
RuleCategories ==
    [ strictMode |-> {"STRICT_MODE_VIOLATION"},
      selector |-> {"SELECTOR_NOT_FOUND"},
      timeout |-> {"NETWORK_TIMEOUT", "NAVIGATION_TIMEOUT"},
      authentication |-> {"AUTHENTICATION_FAILURE"},
      assertion |-> {"ASSERTION_FAILURE"} ]

CategoriesIn(buffer) == { buffer[i].type : i \in DOMAIN buffer }

\* the buffer holding one record of each category of a set, in enum order
OneOfEach(categories) ==
    LET order == << "SELECTOR_NOT_FOUND", "STRICT_MODE_VIOLATION", "NETWORK_TIMEOUT",
                    "AUTHENTICATION_FAILURE", "ELEMENT_NOT_INTERACTIVE",
                    "NAVIGATION_TIMEOUT", "ASSERTION_FAILURE", "UNKNOWN" >>
        kept == SelectSeq(order, LAMBDA t : t \in categories)
    IN  [ i \in DOMAIN kept |-> [NoTestError EXCEPT !.type = kept[i]] ]

\* all the suggestions of a group are in a result
HasAll(result, group) ==
    \A k \in 1..SuggestionCount[group] :
        \E i \in DOMAIN result : result[i] = [group |-> group, k |-> k]

HasNone(result, group) == \A i \in DOMAIN result : result[i].group # group

\* C21: the suggestions depend only on the set of categories in the buffer;
\* each rule whose category is present contributes all its suggestions, the
\* general ones are returned exactly when no rule applies, and the result is
\* never empty
C21_SuggestionsByCategorySet ==
    callIn.fn = "getDebuggingSuggestions" /\ callOut.done =>
      LET present == CategoriesIn(callIn.buffer)
          applies(rule) == RuleCategories[rule] \cap present # {}
      IN  /\ callOut.value = getDebuggingSuggestions(OneOfEach(present))
          /\ \A rule \in DOMAIN RuleCategories :
               IF applies(rule) THEN HasAll(callOut.value, rule)
               ELSE HasNone(callOut.value, rule)
          /\ IF \E rule \in DOMAIN RuleCategories : applies(rule)
             THEN HasNone(callOut.value, "general")
             ELSE HasAll(callOut.value, "general")
          /\ Len(callOut.value) > 0

\* suggestions were computed for a buffer with a repeated category, two
\* rules that apply and a category without rule
C21_Witness ==
    /\ callIn.fn = "getDebuggingSuggestions"
    /\ callOut.done
    /\ Len(callIn.buffer) = 3
    /\ callIn.buffer[1].type = "NAVIGATION_TIMEOUT"
    /\ callIn.buffer[2].type = "NAVIGATION_TIMEOUT"
    /\ callIn.buffer[3].type = "ASSERTION_FAILURE"
    /\ Len(callOut.value) = 9

(***************************************************************************)
(* SpecStrict: ErrorHandler.extractStrictModeDetails applied to an error   *)
(* message.  The message is given by what the three regular expressions    *)
(* find in it: the digits of "resolved to <digits> elements:" (none when   *)
(* the text is absent), the selector of the first locator(...) (none when  *)
(* absent) and the numbered lines describing the elements.                 *)
(***************************************************************************)
MaxDigits == 2

DigitInputs == {0, 1, 2, 3}

\* a selector text, with whether it contains '.or('
Selector(text, hasOr) == [text |-> text, hasOr |-> hasOr]

NoSelectorMatch == Selector("", FALSE)

SelectorInputs ==
    { NoSelectorMatch, Selector("button.submit", FALSE), Selector("text=a.or(b", TRUE) }

StrictMessages ==
    { [ digits |-> digits, selector |-> selector, elementLines |-> lines ] :
        digits \in SeqsUpTo(DigitInputs, MaxDigits),
        selector \in SelectorInputs,
        lines \in { <<>>, <<"<button class=submit>">> } }

\* parseInt of a string of decimal digits
RECURSIVE parseInt(_)
parseInt(digits) ==
    IF digits = <<>> THEN 0
    ELSE 10 * parseInt(SubSeq(digits, 1, Len(digits) - 1)) + digits[Len(digits)]

\* mutant: two elements already get the fix for an over-broad selector
suggestedFixFor_twoIsMany(selector, elementsFound) ==
    IF selector.hasOr
    THEN "Make selectors more specific or use .first() on the fallback selectors"
    ELSE IF elementsFound >= 2
    THEN "Use .first() or create a more specific selector to target the intended element"
    ELSE "Use .first() to select the first matching element"

\* the if / else if chain that picks suggestedFix
suggestedFixFor(selector, elementsFound) ==
    IF selector.hasOr
    THEN "Make selectors more specific or use .first() on the fallback selectors"
    ELSE IF elementsFound = 2
    THEN "Use .first() or make the selector more specific to target only one element"
    ELSE IF elementsFound > 2
    THEN "Use .first() or create a more specific selector to target the intended element"
    ELSE "Use .first() to select the first matching element"

extractStrictModeDetails(errorMessage) ==
    LET elementsFound == IF errorMessage.digits # <<>>
                         THEN parseInt(errorMessage.digits) ELSE 0
        selector == IF errorMessage.selector # NoSelectorMatch
                    THEN errorMessage.selector ELSE Selector("unknown", FALSE)
    IN  [ elementsFound |-> elementsFound,
          elementsExpected |-> 1,
          selector |-> selector.text,
          foundElements |-> errorMessage.elementLines,
          suggestedFix |-> suggestedFixFor(selector, elementsFound) ]

InitStrict ==
    /\ ClassifyIdle
    /\ StoreIdle
    /\ TestIdle
    /\ AnalyzeIdle /\ HistoryIdle /\ ReporterIdle /\ ErrorReporterIdle /\ CaptureIdle
    /\ SnapshotIdle
    /\ RetryIdle
    /\ ListenIdle /\ NetworkIdle
    /\ \E errorMessage \in StrictMessages :
         callIn = [fn |-> "extractStrictModeDetails", errorMessage |-> errorMessage]
    /\ callOut = NoResult

ExtractStrictModeDetails ==
    /\ callIn.fn = "extractStrictModeDetails"
    /\ ~callOut.done
    /\ callOut' = [done |-> TRUE, value |-> extractStrictModeDetails(callIn.errorMessage)]
    /\ UNCHANGED <<callIn, classifyVars, storeVars, testVars, analyzeVars, historyVars,
                   reporterVars, errorReporterVars, captureVars, snapshotVars, retryVars, listenVars, networkVars>>

NextStrict == ExtractStrictModeDetails

SpecStrict == InitStrict /\ [][NextStrict]_vars

\* the number the digits of the message denote
RECURSIVE CountFrom(_, _)
CountFrom(digits, acc) ==
    IF digits = <<>> THEN acc ELSE CountFrom(Tail(digits), 10 * acc + Head(digits))

CountIn(errorMessage) == CountFrom(errorMessage.digits, 0)

StrictDone == callIn.fn = "extractStrictModeDetails" /\ callOut.done

\* the two fixes that contain ".first()" and tell the user to narrow the selector
NarrowingFixes ==
    { "Use .first() or make the selector more specific to target only one element",
      "Make selectors more specific or use .first() on the fallback selectors" }

\* C23 as stated: elementsFound is the count of the message (0 when none can
\* be parsed), elementsExpected is 1, and the count alone chooses the fix: a
\* narrowing fix with ".first()" for 2, the over-broad-selector fix above 2
C23_FixChosenByCount ==
    StrictDone =>
      LET n == CountIn(callIn.errorMessage) IN
      /\ callOut.value.elementsFound = n
      /\ callOut.value.elementsExpected = 1
      /\ n = 2 => callOut.value.suggestedFix \in NarrowingFixes
      /\ n > 2 => callOut.value.suggestedFix =
           "Use .first() or create a more specific selector to target the intended element"

\* C23 amended: the fix is chosen by the count unless the selector found in
\* the message contains '.or(', which gets the fallback-selectors fix
\* whatever the count
C23_FixChosenBySelectorThenCount ==
    StrictDone =>
      LET n == CountIn(callIn.errorMessage)
          fix == callOut.value.suggestedFix
      IN  /\ callOut.value.elementsFound = n
          /\ callOut.value.elementsExpected = 1
          /\ IF callIn.errorMessage.selector.hasOr
             THEN fix = "Make selectors more specific or use .first() on the fallback selectors"
             ELSE /\ n = 2 => fix =
                       "Use .first() or make the selector more specific to target only one element"
                  /\ n > 2 => fix =
                       "Use .first() or create a more specific selector to target the intended element"
                  /\ n < 2 => fix = "Use .first() to select the first matching element"

\* the details of "locator('button.submit') resolved to 2 elements:"
C23_Witness ==
    /\ StrictDone
    /\ callIn.errorMessage.digits = <<2>>
    /\ callIn.errorMessage.selector.text = "button.submit"
    /\ callOut.value.elementsFound = 2
    /\ callOut.value.suggestedFix \in NarrowingFixes

(***************************************************************************)
(* SpecDetails: one awaited ErrorHandler.handleError call with the fourth  *)
(* argument additionalInfo, and the detail payloads it puts in the         *)
(* record's context.                                                       *)
(***************************************************************************)
\* the value of a property that was not supplied
Undefined == "<undefined>"

\* the values `x || default` replaces
Falsy == {Undefined, ""}

\* a context field that was not set
NoDetails == [present |-> FALSE]

NoAdditionalInfo ==
    [ given |-> FALSE, isAssertionFailure |-> FALSE, operation |-> Undefined,
      expectedValue |-> Undefined, actualValue |-> Undefined, description |-> Undefined ]

\* additionalInfo: left out, or an object as expectWithCapture,
\* captureAssertionFailure and onTestFailure build it
AdditionalInfos ==
    { NoAdditionalInfo } \cup
    { [ given |-> TRUE, isAssertionFailure |-> flag, operation |-> operation,
        expectedValue |-> expected, actualValue |-> actual, description |-> Undefined ] :
        flag \in BOOLEAN, operation \in {Undefined, "", "toBe"},
        expected \in {Undefined, "Welcome"}, actual \in {Undefined, "Goodbye"} }

DetailMessages ==
    { Message(ws, FALSE) : ws \in SUBSET {"strict mode violation", "timeout", "expect"} }

\* a keyword message as extractStrictModeDetails reads it: it carries no
\* count, no locator and no numbered line
StrictReading(message) ==
    [ digits |-> <<>>, selector |-> NoSelectorMatch, elementLines |-> <<>> ]

extractAssertionFailureDetails(errorMessage, additionalInfo) ==
    LET operation == IF additionalInfo.operation \in Falsy THEN "unknown"
                     ELSE additionalInfo.operation
    IN  [ present |-> TRUE,
          assertionType |-> "expect",
          operation |-> operation,
          expectedValue |-> additionalInfo.expectedValue,
          actualValue |-> additionalInfo.actualValue,
          description |-> IF additionalInfo.description \in Falsy THEN errorMessage
                          ELSE additionalInfo.description,
          suggestedFix |-> IF operation \in {"toContain", "toBe", "toBeVisible", "toHaveText",
                                             "toHaveURL", "toHaveCount"}
                           THEN operation ELSE "review" ]

\* mutant: the payload is attached whenever the caller set isAssertionFailure
HasAssertionDetails_anyType(errorType, additionalInfo) ==
    additionalInfo.given /\ additionalInfo.isAssertionFailure

\* errorType === ASSERTION_FAILURE && additionalInfo?.isAssertionFailure
HasAssertionDetails(errorType, additionalInfo) ==
    /\ errorType = "ASSERTION_FAILURE"
    /\ additionalInfo.given /\ additionalInfo.isAssertionFailure

\* handleError from its first line to its return, every await completed
HandleErrorDetails ==
    /\ callIn.fn = "handleError"
    /\ ~callOut.done
    /\ LET error == callIn.error
           errorType == categorizeError(error)
           context ==
              [ timestamp |-> 1, testName |-> "test", additionalInfo |-> callIn.additionalInfo,
                strictModeDetails |->
                    IF errorType = "STRICT_MODE_VIOLATION"
                    THEN [present |-> TRUE,
                          details |-> extractStrictModeDetails(StrictReading(error.message))]
                    ELSE NoDetails,
                assertionDetails |->
                    IF HasAssertionDetails(errorType, callIn.additionalInfo)
                    THEN extractAssertionFailureDetails(error.message, callIn.additionalInfo)
                    ELSE NoDetails,
                screenshotPath |-> captureScreenshot(TRUE) ]
           testError ==
              [ type |-> errorType, message |-> error.message, context |-> context,
                recoveryAttempted |-> FALSE, recoverySuccessful |-> FALSE ]
           written == writeErrorToLog(testError, "ok")
       IN  /\ errors' = Append(errors, testError)
           /\ logFile' = written.log
           /\ latestFile' = written.latest
           /\ callOut' = [done |-> TRUE, value |-> testError]
    /\ UNCHANGED <<callIn, priorLen, calls, microtasks, classifyVars, testVars, analyzeVars,
                   historyVars, reporterVars, errorReporterVars, captureVars, snapshotVars,
                   retryVars, listenVars, networkVars>>

InitDetails ==
    /\ ClassifyIdle
    /\ StoreIdle
    /\ TestIdle
    /\ AnalyzeIdle /\ HistoryIdle /\ ReporterIdle /\ ErrorReporterIdle /\ CaptureIdle
    /\ SnapshotIdle
    /\ RetryIdle
    /\ ListenIdle /\ NetworkIdle
    /\ \E m \in DetailMessages, additionalInfo \in AdditionalInfos :
         callIn = [fn |-> "handleError", error |-> ErrorOf(m, 1),
                   additionalInfo |-> additionalInfo]
    /\ callOut = NoResult

NextDetails == HandleErrorDetails

SpecDetails == InitDetails /\ [][NextDetails]_vars

\* the payloads of a record match its category, and an assertion payload
\* carries the caller's expected and actual values
PayloadsMatch(testError) ==
    LET strict == testError.context.strictModeDetails
        assertion == testError.context.assertionDetails
    IN  /\ strict.present <=> testError.type = "STRICT_MODE_VIOLATION"
        /\ assertion.present =>
             /\ testError.type = "ASSERTION_FAILURE"
             /\ callIn.additionalInfo.isAssertionFailure
             /\ assertion.expectedValue = callIn.additionalInfo.expectedValue
             /\ assertion.actualValue = callIn.additionalInfo.actualValue
        /\ ~(strict.present /\ assertion.present)

DetailsDone == callIn.fn = "handleError" /\ callOut.done

\* C22 as stated: the payloads match the category in every record made, and
\* the operation of an assertion payload is exactly the caller's
C22_PayloadsAsSupplied ==
    DetailsDone =>
      \A i \in DOMAIN errors :
        /\ PayloadsMatch(errors[i])
        /\ errors[i].context.assertionDetails.present =>
             errors[i].context.assertionDetails.operation = callIn.additionalInfo.operation

\* C22 amended: as stated, except that the operation is 'unknown' when the
\* caller supplied none or an empty one
C22_PayloadsMatchCategory ==
    DetailsDone =>
      \A i \in DOMAIN errors :
        /\ PayloadsMatch(errors[i])
        /\ errors[i].context.assertionDetails.present =>
             errors[i].context.assertionDetails.operation =
               IF callIn.additionalInfo.operation \in Falsy THEN "unknown"
               ELSE callIn.additionalInfo.operation

\* an assertion failure was recorded with the caller's operation and values
C22_Witness ==
    /\ DetailsDone
    /\ Len(errors) = 1
    /\ errors[1].type = "ASSERTION_FAILURE"
    /\ errors[1].context.assertionDetails.present
    /\ errors[1].context.assertionDetails.operation = "toBe"
    /\ errors[1].context.assertionDetails.expectedValue = "Welcome"
    /\ ~errors[1].context.strictModeDetails.present

(***************************************************************************)
(* SpecReports: the three report generators applied to a buffer or to an   *)
(* insight list, empty ones included.  A report string is modelled as the  *)
(* sequence of its lines; the empty string has no line.                    *)
(***************************************************************************)
MaxReportBuffer == 2

MaxInsights == 2

\* affectedTests.slice(0, 5)
AffectedShown == 5

\* this.errors.slice(-10)
RecentDetailed == 10

Returned(text) == [threw |-> FALSE, text |-> text]

ReportBuffers ==
    { [ i \in DOMAIN types |-> [NoTestError EXCEPT !.type = types[i]] ] :
        types \in SeqsUpTo(SnapshotTypes, MaxReportBuffer) }

\* insights with no, one and more than AffectedShown affected tests
SampleInsights ==
    { [ category |-> "Timeout Issues", priority |-> priority,
        description |-> "timeouts", affectedTests |-> [ i \in 1..k |-> i ],
        recommendations |-> <<"Increase timeout values">> ] :
        priority \in {"high", "medium", "low"}, k \in {0, 1, AffectedShown + 1} }

\* the argument of formatInsightsReport: null / undefined, or a list
InsightLists ==
    { [given |-> FALSE, list |-> <<>>] } \cup
    { [given |-> TRUE, list |-> list] : list \in SeqsUpTo(SampleInsights, MaxInsights) }

\* the lines of the template string generateErrorReport returns
ErrorReportLines(report) ==
    LET types == DOMAIN report.counts
        typeLines == IF types = {} THEN <<"">>
                     ELSE <<[line |-> "types", counts |-> report.counts]>>
        recentLines == IF Len(report.recent) = 0 THEN <<"">> ELSE report.recent
    IN  <<"", "=== ERROR REPORT ===", [line |-> "Total Errors", total |-> report.total],
          "Error Types:">> \o typeLines \o <<"", "Recent Errors:">> \o recentLines
          \o <<"==================">>

generateDetailedErrorReport(buffer) ==
    IF Len(buffer) = 0
    THEN <<"No errors recorded in this session!">>
    ELSE LET first == IF Len(buffer) > RecentDetailed
                      THEN Len(buffer) - RecentDetailed + 1 ELSE 1
         IN  <<"DETAILED ERROR HANDLER REPORT",
               [line |-> "Session ID", value |-> sessionId],
               [line |-> "Total Errors", total |-> Len(buffer)],
               [line |-> "Time Period", from |-> buffer[1].context.timestamp,
                to |-> buffer[Len(buffer)].context.timestamp],
               [line |-> "ERROR TYPES", counts |-> generateErrorReport(buffer).counts],
               [line |-> "PAGES WITH ERRORS", errors |-> Len(buffer)],
               [line |-> "RECENT ERRORS", recent |-> SubSeq(buffer, first, Len(buffer))],
               "Error logs directory">>

\* the lines formatInsightsReport writes for one insight
InsightLines(insight, index) ==
    LET n == Len(insight.affectedTests)
        shown == IF n > AffectedShown THEN AffectedShown ELSE n
    IN  <<[line |-> "heading", index |-> index, priority |-> insight.priority,
           category |-> insight.category], insight.description>>
        \o (IF n > 0
            THEN <<[line |-> "Affected Tests", count |-> n]>>
                 \o [ i \in 1..shown |-> [line |-> "test", name |-> insight.affectedTests[i]] ]
                 \o (IF n > AffectedShown
                     THEN <<[line |-> "more", count |-> n - AffectedShown]>> ELSE <<>>)
            ELSE <<>>)
        \o <<"Recommendations:">> \o insight.recommendations \o <<"----">>

RECURSIVE AllInsightLines(_, _)
AllInsightLines(list, index) ==
    IF index > Len(list) THEN <<>>
    ELSE InsightLines(list[index], index) \o AllInsightLines(list, index + 1)

\* mutant: no guard for an empty or missing list
formatInsightsReport_noGuard(insights) ==
    IF ~insights.given THEN [threw |-> TRUE, text |-> <<>>]
    ELSE Returned(AllInsightLines(insights.list, 1))

formatInsightsReport(insights) ==
    IF ~insights.given \/ Len(insights.list) = 0
    THEN Returned(<<"No failure insights available. All tests may have passed!">>)
    ELSE Returned(<<"FAILURE ANALYSIS REPORT", "====">> \o AllInsightLines(insights.list, 1))

InitReports ==
    /\ ClassifyIdle
    /\ StoreIdle
    /\ TestIdle
    /\ AnalyzeIdle /\ HistoryIdle /\ ReporterIdle /\ ErrorReporterIdle /\ CaptureIdle
    /\ SnapshotIdle
    /\ RetryIdle
    /\ ListenIdle /\ NetworkIdle
    /\ \/ \E fn \in {"generateErrorReport", "generateDetailedErrorReport"} :
            \E buffer \in ReportBuffers : callIn = [fn |-> fn, buffer |-> buffer]
       \/ \E insights \in InsightLists :
            callIn = [fn |-> "formatInsightsReport", insights |-> insights]
    /\ callOut = NoResult

GenerateErrorReport ==
    /\ callIn.fn = "generateErrorReport"
    /\ ~callOut.done
    /\ callOut' = [done |-> TRUE,
                   value |-> Returned(ErrorReportLines(generateErrorReport(callIn.buffer)))]
    /\ UNCHANGED <<callIn, classifyVars, storeVars, testVars, analyzeVars, historyVars,
                   reporterVars, errorReporterVars, captureVars, snapshotVars, retryVars, listenVars, networkVars>>

GenerateDetailedErrorReport ==
    /\ callIn.fn = "generateDetailedErrorReport"
    /\ ~callOut.done
    /\ callOut' = [done |-> TRUE,
                   value |-> Returned(generateDetailedErrorReport(callIn.buffer))]
    /\ UNCHANGED <<callIn, classifyVars, storeVars, testVars, analyzeVars, historyVars,
                   reporterVars, errorReporterVars, captureVars, snapshotVars, retryVars, listenVars, networkVars>>

FormatInsightsReport ==
    /\ callIn.fn = "formatInsightsReport"
    /\ ~callOut.done
    /\ callOut' = [done |-> TRUE, value |-> formatInsightsReport(callIn.insights)]
    /\ UNCHANGED <<callIn, classifyVars, storeVars, testVars, analyzeVars, historyVars,
                   reporterVars, errorReporterVars, captureVars, snapshotVars, retryVars, listenVars, networkVars>>

NextReports ==
    \/ GenerateErrorReport
    \/ GenerateDetailedErrorReport
    \/ FormatInsightsReport

SpecReports == InitReports /\ [][NextReports]_vars

\* C24: on a store with zero records both report generators return a
\* non-empty string and raise nothing, and formatInsightsReport on an empty
\* or missing list returns the non-empty all-clear message
C24_ReportsTolerateEmpty ==
    /\ (callIn.fn \in {"generateErrorReport", "generateDetailedErrorReport"}
          /\ callOut.done /\ Len(callIn.buffer) = 0) =>
         /\ ~callOut.value.threw
         /\ Len(callOut.value.text) > 0
    /\ (callIn.fn = "formatInsightsReport" /\ callOut.done
          /\ (~callIn.insights.given \/ Len(callIn.insights.list) = 0)) =>
         /\ ~callOut.value.threw
         /\ callOut.value.text =
              <<"No failure insights available. All tests may have passed!">>

\* formatInsightsReport returned for a missing list
C24_Witness ==
    /\ callIn.fn = "formatInsightsReport"
    /\ ~callIn.insights.given
    /\ callOut.done
    /\ Len(callOut.value.text) = 1

(***************************************************************************)
(* SpecLoad: the history subcommand, ErrorAnalyzer.showHistoricalAnalysis, *)
(* on a log directory that may be missing, and whose files may have other  *)
(* names or contents that JSON.parse rejects.                              *)
(***************************************************************************)
MaxFiles == 3

\* a file of the log directory: whether its name is errors-*.json, whether
\* JSON.parse accepts its contents, and the run summary it then yields
LogFiles ==
    { [ matches |-> matches, parseable |-> FALSE, summary |-> <<>> ] : matches \in BOOLEAN }
    \cup
    { [ matches |-> matches, parseable |-> TRUE, summary |-> run ] :
        matches \in BOOLEAN, run \in { << 1 >>, << 2, 3 >> } }

NullAnalysis == [ isNull |-> TRUE ]

\* the for loop: the summaries of the files that parse, in order
RECURSIVE ParsedSummaries(_)
ParsedSummaries(errorFiles) ==
    IF errorFiles = <<>> THEN <<>>
    ELSE LET rest == ParsedSummaries(Tail(errorFiles)) IN
         IF Head(errorFiles).parseable THEN << Head(errorFiles).summary >> \o rest ELSE rest

generateHistoricalAnalysis(dirExists, files) ==
    LET errorFiles == SelectSeq(files, LAMBDA f : f.matches) IN
    IF ~dirExists THEN NullAnalysis
    ELSE IF Len(errorFiles) = 0 THEN NullAnalysis
    ELSE LET allErrorSummaries == ParsedSummaries(errorFiles) IN
         [ isNull |-> FALSE,
           appliedTo |-> Len(allErrorSummaries),
           analysis |-> analyzeHistoricalData(allErrorSummaries) ]

ShowHistoricalAnalysis ==
    /\ callIn.fn = "showHistoricalAnalysis"
    /\ ~callOut.done
    /\ LET analysis == generateHistoricalAnalysis(callIn.dirExists, callIn.files) IN
       callOut' = [ done |-> TRUE, threw |-> FALSE, value |-> analysis,
                    printed |-> IF analysis.isNull THEN "No historical error data found."
                                ELSE "Total test runs analyzed" ]
    /\ UNCHANGED <<callIn, classifyVars, storeVars, testVars, analyzeVars, historyVars,
                   reporterVars, errorReporterVars, captureVars, snapshotVars, retryVars, listenVars, networkVars>>

InitLoad ==
    /\ ClassifyIdle
    /\ StoreIdle
    /\ TestIdle
    /\ AnalyzeIdle /\ HistoryIdle /\ ReporterIdle /\ ErrorReporterIdle /\ CaptureIdle
    /\ SnapshotIdle
    /\ RetryIdle
    /\ ListenIdle /\ NetworkIdle
    /\ \/ callIn = [fn |-> "showHistoricalAnalysis", dirExists |-> FALSE, files |-> <<>>]
       \/ \E files \in SeqsUpTo(LogFiles, MaxFiles) :
            callIn = [fn |-> "showHistoricalAnalysis", dirExists |-> TRUE, files |-> files]
    /\ callOut = NoResult

NextLoad == ShowHistoricalAnalysis

SpecLoad == InitLoad /\ [][NextLoad]_vars

\* no errors-*.json file of the directory yields a run summary
NothingLoads ==
    \A i \in DOMAIN callIn.files :
        ~(callIn.files[i].matches /\ callIn.files[i].parseable)

\* C25: whenever no run summary can be loaded the history subcommand prints
\* its no-data message and raises nothing, generateHistoricalAnalysis having
\* returned null; analyzeHistoricalData is only applied to one or more
\* summaries
C25_NoDataWhenNothingLoads ==
    (callIn.fn = "showHistoricalAnalysis" /\ callOut.done) =>
      /\ ~callOut.threw
      /\ NothingLoads =>
           /\ callOut.value.isNull
           /\ callOut.printed = "No historical error data found."
      /\ ~callOut.value.isNull => callOut.value.appliedTo >= 1


(***************************************************************************)
(* SpecListen: ContextCapture.startListening and stopListening on one      *)
(* page, and the page's console events.  A console message is identified   *)
(* by its position in the page's output; every 'console' listener that     *)
(* startListening has put on the page runs for every message and pushes    *)
(* one entry.                                                              *)
(***************************************************************************)
MaxEmitted == 3    \* console messages the page emits
MaxHandlers == 3   \* startListening calls that register listeners

\* startListening(page): returns at once when listening, otherwise sets the
\* flag and registers the listeners with page.on
StartListening ==
    /\ consoleHandlers < MaxHandlers
    /\ IF isListening
       THEN UNCHANGED <<isListening, consoleHandlers>>
       ELSE /\ isListening' = TRUE
            /\ consoleHandlers' = consoleHandlers + 1
    /\ UNCHANGED <<consoleMessages, emitted, classifyVars, storeVars, testVars, analyzeVars, historyVars,
                   reporterVars, errorReporterVars, captureVars, snapshotVars, retryVars, callVars, networkVars>>

\* stopListening(): clears the flag; no listener is taken off the page
StopListening ==
    /\ isListening' = FALSE
    /\ UNCHANGED <<consoleMessages, consoleHandlers, emitted, classifyVars, storeVars, testVars, analyzeVars,
                   historyVars, reporterVars, errorReporterVars, captureVars, snapshotVars, retryVars, callVars,
                   networkVars>>

\* what the registered 'console' listeners push for message id
Pushed(id, handlers) == [h \in 1..handlers |-> [id |-> id]]

\* the page emits a console message: each registered listener pushes an entry
PageConsole ==
    /\ Len(emitted) < MaxEmitted
    /\ LET id == Len(emitted) + 1 IN
       /\ emitted' = Append(emitted, [id |-> id, listening |-> isListening])
       /\ consoleMessages' = consoleMessages \o Pushed(id, consoleHandlers)
    /\ UNCHANGED <<isListening, consoleHandlers, classifyVars, storeVars, testVars, analyzeVars, historyVars,
                   reporterVars, errorReporterVars, captureVars, snapshotVars, retryVars, callVars, networkVars>>

\* getConsoleMessages(): a copy of the array
getConsoleMessages == consoleMessages

InitListen ==
    /\ ClassifyIdle
    /\ StoreIdle
    /\ TestIdle
    /\ ToolsIdle

NextListen ==
    \/ StartListening
    \/ StopListening
    \/ PageConsole

SpecListen == InitListen /\ [][NextListen]_vars

\* how many entries getConsoleMessages holds for message id
EntriesFor(id) == Cardinality({ i \in DOMAIN getConsoleMessages : getConsoleMessages[i].id = id })

\* C29: getConsoleMessages holds exactly one entry for each console message
\* the page emitted while listening was on, and none for a message emitted
\* while listening was stopped
C29_OneEntryPerMessageWhileListening ==
    \A m \in DOMAIN emitted :
        EntriesFor(emitted[m].id) = IF emitted[m].listening THEN 1 ELSE 0
(***************************************************************************)
(* SpecNetwork: NetworkHandler after setupNetworkHandling with the default *)
(* configuration (request interception and metrics enabled): the route     *)
(* handler, the 'response' listener and the 'requestfailed' listener, on a *)
(* clock that may advance between any two of them.  activeRequests is the  *)
(* Map as a set of entries with distinct ids.                              *)
(***************************************************************************)
MaxRequests == 2   \* requests the page issues
MaxClock == 2      \* milliseconds that pass

\* method and URL of a request
RequestKeys == { [method |-> "GET", url |-> "/a"], [method |-> "POST", url |-> "/a"] }

\* response.status()
ResponseStatuses == { 200, 500 }

\* `${request.method()}-${request.url()}-${Date.now()}`
generateRequestId(request, now) == [method |-> request.method, url |-> request.url, now |-> now]

\* Map.set
MapSet(map, id, context) == { e \in map : e.id # id } \cup { [id |-> id, context |-> context] }

\* Map.has
MapHas(map, id) == \E e \in map : e.id = id

\* Map.delete
MapDelete(map, id) == { e \in map : e.id # id }

\* Date.now() moves on
Tick ==
    /\ clock < MaxClock
    /\ clock' = clock + 1
    /\ UNCHANGED <<pageRequests, activeRequests, metrics, classifyVars, storeVars, testVars, analyzeVars,
                   historyVars, reporterVars, errorReporterVars, captureVars, snapshotVars, retryVars, callVars,
                   listenVars>>

\* the page issues a request and the route handler stores its context
RouteHandler(request) ==
    /\ Len(pageRequests) < MaxRequests
    /\ LET requestId == generateRequestId(request, clock)
           context == [request |-> Len(pageRequests) + 1, attempt |-> 1, startTime |-> clock]
       IN  /\ activeRequests' = MapSet(activeRequests, requestId, context)
           /\ pageRequests' = Append(pageRequests, [request |-> request, pc |-> "routed"])
    /\ UNCHANGED <<clock, metrics, classifyVars, storeVars, testVars, analyzeVars, historyVars, reporterVars,
                   errorReporterVars, captureVars, snapshotVars, retryVars, callVars, listenVars>>

\* recordResponseMetrics with enableMetrics
recordResponseMetrics(m, status) ==
    [m EXCEPT !.totalRequests = @ + 1,
              !.successfulRequests = IF status >= 200 /\ status < 400 THEN @ + 1 ELSE @,
              !.failedRequests = IF status >= 200 /\ status < 400 THEN @ ELSE @ + 1]

\* the 'response' listener for request n
OnResponse(n, status) ==
    /\ n \in DOMAIN pageRequests
    /\ pageRequests[n].pc = "routed"
    /\ LET requestId == generateRequestId(pageRequests[n].request, clock) IN
       IF MapHas(activeRequests, requestId)
       THEN /\ metrics' = recordResponseMetrics(metrics, status)
            /\ activeRequests' = MapDelete(activeRequests, requestId)
       ELSE UNCHANGED <<metrics, activeRequests>>
    /\ pageRequests' = [pageRequests EXCEPT ![n].pc = "responded"]
    /\ UNCHANGED <<clock, classifyVars, storeVars, testVars, analyzeVars, historyVars, reporterVars,
                   errorReporterVars, captureVars, snapshotVars, retryVars, callVars, listenVars>>

\* the 'requestfailed' listener for request n; request.failure() is set
OnRequestFailed(n) ==
    /\ n \in DOMAIN pageRequests
    /\ pageRequests[n].pc = "routed"
    /\ LET requestId == generateRequestId(pageRequests[n].request, clock) IN
       activeRequests' = MapDelete(activeRequests, requestId)
    /\ metrics' = [metrics EXCEPT !.failedRequests = @ + 1]
    /\ pageRequests' = [pageRequests EXCEPT ![n].pc = "failed"]
    /\ UNCHANGED <<clock, classifyVars, storeVars, testVars, analyzeVars, historyVars, reporterVars,
                   errorReporterVars, captureVars, snapshotVars, retryVars, callVars, listenVars>>

InitNetwork ==
    /\ ClassifyIdle
    /\ StoreIdle
    /\ TestIdle
    /\ ToolsIdle

NextNetwork ==
    \/ Tick
    \/ \E request \in RequestKeys : RouteHandler(request)
    \/ \E n \in 1..MaxRequests : \E status \in ResponseStatuses : OnResponse(n, status)
    \/ \E n \in 1..MaxRequests : OnRequestFailed(n)

SpecNetwork == InitNetwork /\ [][NextNetwork]_vars

\* the intercepted requests that have got a response
Responded == { n \in DOMAIN pageRequests : pageRequests[n].pc = "responded" }

\* the intercepted requests still waiting for their response or failure
Pending == { n \in DOMAIN pageRequests : pageRequests[n].pc = "routed" }

\* C30: every context the route handler stored is found and removed when its
\* request's response or requestfailed event is handled, and a responded
\* request is counted once: activeRequests holds exactly the contexts of
\* the pending requests (so it is empty once all have completed) and
\* totalRequests is the number of responded requests
C30_ActiveRequestsArePending ==
    /\ { e.context.request : e \in activeRequests } = Pending
    /\ metrics.totalRequests = Cardinality(Responded)
====
